---- MODULE Spec2Model ----
(***************************************************************************)
(* A model of gerbmerge's geometry routines, Gerber/Excellon parsers,      *)
(* trim operations and job rotation.                                       *)
(***************************************************************************)
EXTENDS Integers, Sequences, FiniteSets, TLC

(***************************************************************************)
(* Python float arithmetic (IEEE-754 binary64, round-to-nearest-even).     *)
(* geometry.py computes slopes and intersection points in floats, and the  *)
(* rounding error of those operations decides whether a candidate point is *)
(* "on" a segment, so the arithmetic is modelled bit-exactly.  A magnitude *)
(* is a little-endian sequence of limbs in base 2^14 without leading zero  *)
(* limbs (<<>> is 0); a float is [sgn, man, exp] = sgn * man * 2^exp with  *)
(* man of exactly MantBits bits (or sgn = 0, man = <<>>, exp = 0).         *)
(***************************************************************************)
LimbBits == 14

LimbBase == 2^14

MantBits == 53

Pow2(n) == 2^n

Max2(a, b) == IF a >= b THEN a ELSE b

Min2(a, b) == IF a <= b THEN a ELSE b

AbsInt(n) == IF n < 0 THEN -n ELSE n

SignInt(n) == IF n < 0 THEN -1 ELSE IF n = 0 THEN 0 ELSE 1

RECURSIVE BNorm(_)
BNorm(a) ==
    IF Len(a) = 0 THEN a
    ELSE IF a[Len(a)] = 0 THEN BNorm(SubSeq(a, 1, Len(a) - 1))
    ELSE a

RECURSIVE BFromNat(_)
BFromNat(n) == IF n = 0 THEN <<>> ELSE <<n % LimbBase>> \o BFromNat(n \div LimbBase)

RECURSIVE BToNat(_)
BToNat(a) == IF Len(a) = 0 THEN 0 ELSE a[1] + LimbBase * BToNat(Tail(a))

Limb(a, i) == IF i <= Len(a) THEN a[i] ELSE 0

RECURSIVE BCmpFrom(_, _, _)
BCmpFrom(a, b, i) ==
    IF i = 0 THEN 0
    ELSE IF Limb(a, i) > Limb(b, i) THEN 1
    ELSE IF Limb(a, i) < Limb(b, i) THEN -1
    ELSE BCmpFrom(a, b, i - 1)

BCmp(a, b) == BCmpFrom(a, b, Max2(Len(a), Len(b)))

RECURSIVE BAddFrom(_, _, _, _)
BAddFrom(a, b, i, carry) ==
    IF i > Len(a) /\ i > Len(b)
    THEN IF carry = 0 THEN <<>> ELSE <<carry>>
    ELSE LET s == Limb(a, i) + Limb(b, i) + carry
         IN  <<s % LimbBase>> \o BAddFrom(a, b, i + 1, s \div LimbBase)

BAdd(a, b) == BAddFrom(a, b, 1, 0)

\* a - b for a >= b
RECURSIVE BSubFrom(_, _, _, _)
BSubFrom(a, b, i, borrow) ==
    IF i > Len(a) THEN <<>>
    ELSE LET s == Limb(a, i) - Limb(b, i) - borrow
         IN  IF s < 0 THEN <<s + LimbBase>> \o BSubFrom(a, b, i + 1, 1)
             ELSE <<s>> \o BSubFrom(a, b, i + 1, 0)

BSub(a, b) == BNorm(BSubFrom(a, b, 1, 0))

\* a * k for 0 <= k <= 2^16
RECURSIVE BMulSmallFrom(_, _, _, _)
BMulSmallFrom(a, k, i, carry) ==
    IF i > Len(a) THEN BFromNat(carry)
    ELSE LET s == a[i] * k + carry
         IN  <<s % LimbBase>> \o BMulSmallFrom(a, k, i + 1, s \div LimbBase)

BMulSmall(a, k) == BNorm(BMulSmallFrom(a, k, 1, 0))

BShiftLimbs(a, n) == IF Len(a) = 0 THEN a ELSE [i \in 1..n |-> 0] \o a

RECURSIVE BMulFrom(_, _, _)
BMulFrom(a, b, i) ==
    IF i > Len(b) THEN <<>>
    ELSE BAdd(BShiftLimbs(BMulSmall(a, b[i]), i - 1), BMulFrom(a, b, i + 1))

BMul(a, b) == BMulFrom(a, b, 1)

BShl(a, bits) == BShiftLimbs(BMulSmall(a, Pow2(bits % LimbBits)), bits \div LimbBits)

\* floor(a / 2^bits)
BShr(a, bits) ==
    LET drop == bits \div LimbBits
        r    == bits % LimbBits
        n    == Len(a) - drop
    IN  IF n <= 0 THEN <<>>
        ELSE BNorm([i \in 1..n |->
                 (a[i + drop] \div Pow2(r))
                 + (Limb(a, i + drop + 1) % Pow2(r)) * Pow2(LimbBits - r)])

RECURSIVE SmallBitLen(_)
SmallBitLen(n) == IF n = 0 THEN 0 ELSE 1 + SmallBitLen(n \div 2)

BBitLen(a) == IF Len(a) = 0 THEN 0 ELSE (Len(a) - 1) * LimbBits + SmallBitLen(a[Len(a)])

BBit(a, i) == (Limb(a, (i \div LimbBits) + 1) \div Pow2(i % LimbBits)) % 2

\* whether a mod 2^k is nonzero
BLowNonzero(a, k) ==
    \/ \E j \in 1..Min2(Len(a), k \div LimbBits) : a[j] # 0
    \/ Limb(a, (k \div LimbBits) + 1) % Pow2(k % LimbBits) # 0

FZero == [sgn |-> 0, man |-> <<>>, exp |-> 0]

\* sgn * q1 * 2^e for q1 of MantBits or MantBits + 1 bits (a carry out of the rounding)
FRoundCarry(sgn, q1, e) ==
    IF BBitLen(q1) > MantBits
    THEN [sgn |-> sgn, man |-> BShr(q1, 1), exp |-> e + 1]
    ELSE [sgn |-> sgn, man |-> q1, exp |-> e]

\* mag has k bits too many and q is mag without them: round half to even
FRoundCut(sgn, mag, exp, k, q) ==
    FRoundCarry(sgn,
                IF BBit(mag, k - 1) = 1 /\ (BLowNonzero(mag, k - 1) \/ BBit(q, 0) = 1)
                THEN BAdd(q, <<1>>) ELSE q,
                exp + k)

FRoundLen(sgn, mag, exp, L) ==
    IF sgn = 0 \/ L = 0 THEN FZero
    ELSE IF L <= MantBits
    THEN [sgn |-> sgn, man |-> BShl(mag, MantBits - L), exp |-> exp - (MantBits - L)]
    ELSE FRoundCut(sgn, mag, exp, L - MantBits, BShr(mag, L - MantBits))

\* The float nearest to sgn * mag * 2^exp, ties to even.
FRound(sgn, mag, exp) == FRoundLen(sgn, mag, exp, BBitLen(mag))

FFromInt(n) == FRound(SignInt(n), BFromNat(AbsInt(n)), 0)

FNeg(a) == [a EXCEPT !.sgn = -a.sgn]

FMul(a, b) ==
    IF a.sgn = 0 \/ b.sgn = 0 THEN FZero
    ELSE FRound(a.sgn * b.sgn, BMul(a.man, b.man), a.exp + b.exp)

\* sa * ma * 2^e + sb * mb * 2^e, where c compares ma with mb
FAddAligned(sa, sb, ma, mb, e, c) ==
    IF sa = sb THEN FRound(sa, BAdd(ma, mb), e)
    ELSE IF c = 0 THEN FZero
    ELSE FRound(IF c > 0 THEN sa ELSE sb, IF c > 0 THEN BSub(ma, mb) ELSE BSub(mb, ma), e)

FAddShifted(sa, sb, ma, mb, e) == FAddAligned(sa, sb, ma, mb, e, BCmp(ma, mb))

FAdd(a, b) ==
    IF a.sgn = 0 THEN b
    ELSE IF b.sgn = 0 THEN a
    ELSE FAddShifted(a.sgn, b.sgn,
                     BShl(a.man, a.exp - Min2(a.exp, b.exp)),
                     BShl(b.man, b.exp - Min2(a.exp, b.exp)),
                     Min2(a.exp, b.exp))

FSub(a, b) == FAdd(a, FNeg(b))

\* Long division of r * 2^n by d for r < d: the quotient's n bits, most
\* significant first, as a number, and the remainder.
RECURSIVE DivBits(_, _, _, _)
DivBits(r, d, n, acc) ==
    IF n = 0 THEN [q |-> acc, rem |-> r]
    ELSE LET r2 == BMulSmall(r, 2)
         IN  IF BCmp(r2, d) >= 0
             THEN DivBits(BSub(r2, d), d, n - 1, 2 * acc + 1)
             ELSE DivBits(r2, d, n - 1, 2 * acc)

\* n more limbs of the quotient of r / d put below the limbs q, then a sticky
\* bit telling whether a remainder is left.
RECURSIVE DivLimbs(_, _, _, _)
RECURSIVE DivLimbsNext(_, _, _, _)
DivLimbs(r, d, n, q) ==
    IF n = 0 THEN BMulSmallFrom(BNorm(q), 2, 1, IF Len(r) = 0 THEN 0 ELSE 1)
    ELSE DivLimbsNext(d, n, q, DivBits(r, d, LimbBits, 0))

DivLimbsNext(d, n, q, step) == DivLimbs(step.rem, d, n - 1, <<step.q>> \o q)

\* The quotient of two mantissas: the leading bit, 4 limbs, the sticky bit
DivMantissa(m, d, q0) == DivLimbs(IF q0 = 1 THEN BSub(m, d) ELSE m, d, 4, <<q0>>)

\* a / b, b nonzero
FDiv(a, b) ==
    IF a.sgn = 0 THEN FZero
    ELSE FRound(a.sgn * b.sgn,
                BNorm(DivMantissa(a.man, b.man, IF BCmp(a.man, b.man) >= 0 THEN 1 ELSE 0)),
                a.exp - b.exp - 4 * LimbBits - 1)

\* sign of a - n for a float a and an integer n
FCmpInt(a, n) == FSub(a, FFromInt(n)).sgn

\* q is |a| without its k fraction bits: round half to even
FRoundHalfEven(a, k, q) ==
    IF BBit(a.man, k - 1) = 1 /\ (BLowNonzero(a.man, k - 1) \/ q % 2 = 1)
    THEN a.sgn * (q + 1) ELSE a.sgn * q

\* Python's round(): the nearest integer, ties to even.
FRoundToInt(a) ==
    IF a.sgn = 0 THEN 0
    ELSE IF a.exp >= 0 THEN a.sgn * BToNat(BShl(a.man, a.exp))
    ELSE FRoundHalfEven(a, -a.exp, BToNat(BShr(a.man, -a.exp)))

(***************************************************************************)
(* geometry.py.  A point is <<x, y>>, a rectangle <<minx, miny, maxx,      *)
(* maxy>>; None is the empty tuple.                                        *)
(***************************************************************************)
None == <<>>

\* x appended to rest unless it is there already
uniqueifyAppend(rest, x) ==
    IF \E i \in 1..Len(rest) : rest[i] = x THEN rest ELSE Append(rest, x)

\* uniqueify without the membership test
uniqueify_keepall(L) == L

RECURSIVE uniqueify(_)
uniqueify(L) ==
    IF Len(L) = 0 THEN L
    ELSE uniqueifyAppend(uniqueify(SubSeq(L, 1, Len(L) - 1)), L[Len(L)])

roundPoint(pt) == <<FRoundToInt(pt[1]), FRoundToInt(pt[2])>>

isSegmentVertical(p1, p2) == p1[1] = p2[1]

isSegmentHorizontal(p1, p2) == p1[2] = p2[2]

segmentSlope(p1, p2) == FDiv(FFromInt(p2[2] - p1[2]), FFromInt(p2[1] - p1[1]))

\* point has float coordinates
isPointOnSegment(point, p1, p2) ==
    IF isSegmentVertical(p1, p2)
    THEN FMul(FSub(point[2], FFromInt(p2[2])), FSub(point[2], FFromInt(p1[2]))).sgn <= 0
    ELSE FMul(FSub(point[1], FFromInt(p2[1])), FSub(point[1], FFromInt(p1[1]))).sgn <= 0

\* The candidate point of two sloped lines, given x
segmentXsegmentPoint(A, B, m1, x) == <<x, FAdd(FMul(m1, FSub(x, FFromInt(A))), FFromInt(B))>>

segmentXsegmentSloped(A, B, P, Q, m1, m2) ==
    IF m1 = m2 THEN None
    ELSE segmentXsegmentPoint(A, B, m1,
             FDiv(FAdd(FSub(FSub(FMul(FFromInt(A), m1), FFromInt(B)), FMul(FFromInt(P), m2)),
                       FFromInt(Q)),
                  FSub(m1, m2)))

\* The candidate point (floats) of segmentXsegment1pt, or None.
segmentXsegmentCandidate(p1, p2, q1, q2) ==
    IF isSegmentVertical(p1, p2)
    THEN IF isSegmentVertical(q1, q2) THEN None
         ELSE <<FFromInt(p1[1]),
                FAdd(FMul(segmentSlope(q1, q2), FFromInt(p1[1] - q1[1])), FFromInt(q1[2]))>>
    ELSE IF isSegmentVertical(q1, q2)
    THEN <<FFromInt(q1[1]),
           FAdd(FMul(segmentSlope(p1, p2), FFromInt(q1[1] - p1[1])), FFromInt(p1[2]))>>
    ELSE segmentXsegmentSloped(p1[1], p1[2], q1[1], q1[2],
                               segmentSlope(p1, p2), segmentSlope(q1, q2))

\* The float point pt / 2^sh
unscalePoint(pt, sh) ==
    <<IF pt[1].sgn = 0 THEN pt[1] ELSE [pt[1] EXCEPT !.exp = @ - sh],
      IF pt[2].sgn = 0 THEN pt[2] ELSE [pt[2] EXCEPT !.exp = @ - sh]>>

\* The candidate c, kept if it is on both segments
segmentXsegmentCheck(c, p1, p2, q1, q2, sh) ==
    IF c = None THEN None
    ELSE IF isPointOnSegment(c, p1, p2) /\ isPointOnSegment(c, q1, q2)
    THEN roundPoint(unscalePoint(c, sh))
    ELSE None

\* The coordinates of p1, p2, q1, q2 are given in units of 2^-sh, which lets
\* an endpoint be a float with sh fraction bits; the point returned is in units.
segmentXsegment1pt(p1, p2, q1, q2, sh) ==
    segmentXsegmentCheck(segmentXsegmentCandidate(p1, p2, q1, q2), p1, p2, q1, q2, sh)

\* isPointStrictlyInRectangle with the left side counted as inside
isPointStrictlyInRectangle_left(point, rect) ==
    (rect[1] <= point[1] /\ point[1] < rect[3]) /\ (rect[2] < point[2] /\ point[2] < rect[4])

isPointStrictlyInRectangle(point, rect) ==
    (rect[1] < point[1] /\ point[1] < rect[3]) /\ (rect[2] < point[2] /\ point[2] < rect[4])

\* canonicalizeExtents on two corner points
canonicalizeExtents2(pt1, pt2) ==
    LET maxx == Max2(pt1[1], pt2[1])
        minx == Min2(pt1[1], pt2[1])
        maxy == Max2(pt1[2], pt2[2])
        miny == Min2(pt1[2], pt2[2])
    IN  [llpt |-> <<minx, miny>>, ulpt |-> <<minx, maxy>>,
         urpt |-> <<maxx, maxy>>, lrpt |-> <<maxx, miny>>,
         rect |-> <<minx, miny, maxx, maxy>>]

\* canonicalizeExtents on one 4-tuple
canonicalizeExtents(E) == canonicalizeExtents2(<<E[1], E[2]>>, <<E[3], E[4]>>)

\* areExtentsOverlapping with allowLines=False
areExtentsOverlapping(E1, E2) ==
    ~(E2[1] >= E1[3] \/ E2[3] <= E1[1] \/ E2[2] >= E1[4] \/ E2[4] <= E1[2])

\* intersectExtents taking the upper-right corner from E1 alone
intersectExtents_first(E1, E2) ==
    LET rect1 == canonicalizeExtents(E1).rect
        rect2 == canonicalizeExtents(E2).rect
    IN  IF ~areExtentsOverlapping(rect1, rect2) THEN None
        ELSE <<Max2(rect1[1], rect2[1]), Max2(rect1[2], rect2[2]), rect1[3], rect1[4]>>

intersectExtents(E1, E2) ==
    LET rect1 == canonicalizeExtents(E1).rect
        rect2 == canonicalizeExtents(E2).rect
    IN  IF ~areExtentsOverlapping(rect1, rect2) THEN None
        ELSE <<Max2(rect1[1], rect2[1]), Max2(rect1[2], rect2[2]),
               Min2(rect1[3], rect2[3]), Min2(rect1[4], rect2[4])>>

isRect1InRect2(E1, E2) ==
    LET c1 == canonicalizeExtents(E1)
        c2 == canonicalizeExtents(E2)
    IN  c1.llpt[1] >= c2.llpt[1] /\ c1.llpt[2] >= c2.llpt[2]
        /\ c1.urpt[1] <= c2.urpt[1] /\ c1.urpt[2] <= c2.urpt[2]

PointLess(a, b) == a[1] < b[1] \/ (a[1] = b[1] /\ a[2] < b[2])

\* list.sort() on a list of at most two points
SortPoints(L) == IF Len(L) = 2 /\ PointLess(L[2], L[1]) THEN <<L[2], L[1]>> ELSE L

\* checkIntersection once pt is known: the lists L and corners after it.
checkIntersectionPoint(pt, oneInOneOut, acc, corner1, corner2) ==
    IF pt = corner1 \/ pt = corner2
    THEN IF oneInOneOut THEN [acc EXCEPT !.L = Append(@, pt)]
         ELSE [acc EXCEPT !.corners = Append(@, pt)]
    ELSE IF pt # None THEN [acc EXCEPT !.L = Append(@, pt)]
         ELSE acc

\* corner1 and corner2 are in units, pt1 and pt2 in units of 2^-sh
checkIntersection(pt1, pt2, oneInOneOut, acc, corner1, corner2, sh) ==
    checkIntersectionPoint(
        segmentXsegment1pt(pt1, pt2, <<corner1[1] * 2^sh, corner1[2] * 2^sh>>,
                           <<corner2[1] * 2^sh, corner2[2] * 2^sh>>, sh),
        oneInOneOut, acc, corner1, corner2)

\* The lists after the four sides: left, top, right, bottom.
segmentXboxSides(pt1, pt2, c, o, sh) ==
    checkIntersection(pt1, pt2, o,
        checkIntersection(pt1, pt2, o,
            checkIntersection(pt1, pt2, o,
                checkIntersection(pt1, pt2, o, [L |-> <<>>, corners |-> <<>>], c.llpt, c.ulpt, sh),
                c.ulpt, c.urpt, sh),
            c.urpt, c.lrpt, sh),
        c.llpt, c.lrpt, sh)

\* The lists de-duplicated; numPts is what the assert reads.
segmentXboxUnique(raw, L, corners) ==
    [L |-> L, corners |-> corners, numPts |-> Len(L) + Len(corners),
     rawL |-> raw.L, rawCorners |-> raw.corners]

segmentXboxCount(raw) == segmentXboxUnique(raw, uniqueify(raw.L), uniqueify(raw.corners))

\* The rectangle rect in units of 2^-sh
scaleRect(rect, sh) == <<rect[1] * 2^sh, rect[2] * 2^sh, rect[3] * 2^sh, rect[4] * 2^sh>>

segmentXboxCanonical(pt1, pt2, c, sh) ==
    segmentXboxCount(segmentXboxSides(pt1, pt2, c,
        isPointStrictlyInRectangle(pt1, scaleRect(c.rect, sh))
            # isPointStrictlyInRectangle(pt2, scaleRect(c.rect, sh)), sh))

\* pt1 and pt2 are in units of 2^-sh (sh = 0 for integer endpoints), the corners in units
segmentXboxLists(pt1, pt2, llpt0, urpt0, sh) ==
    segmentXboxCanonical(pt1, pt2, canonicalizeExtents2(llpt0, urpt0), sh)

\* The value segmentXbox returns when its assertion holds.
segmentXboxResult(r) ==
    IF r.numPts = 2
    THEN IF Len(r.corners) = 2
            /\ (isSegmentHorizontal(r.corners[1], r.corners[2])
                \/ isSegmentVertical(r.corners[1], r.corners[2]))
         THEN <<>>
         ELSE SortPoints(r.L \o r.corners)
    ELSE SortPoints(r.L)

segmentXbox(pt1, pt2, llpt, urpt, sh) == segmentXboxResult(segmentXboxLists(pt1, pt2, llpt, urpt, sh))

(***************************************************************************)
(* Python dictionaries are sequences of <<key, value>> in insertion order. *)
(***************************************************************************)
DictHas(d, k) == \E i \in 1..Len(d) : d[i][1] = k

DictGet(d, k) == d[CHOOSE i \in 1..Len(d) : d[i][1] = k][2]

DictSet(d, k, v) ==
    IF DictHas(d, k) THEN [i \in 1..Len(d) |-> IF d[i][1] = k THEN <<k, v>> ELSE d[i]]
    ELSE Append(d, <<k, v>>)

DictDel(d, k) == SelectSeq(d, LAMBDA e : e[1] # k)

InList(L, x) == \E i \in 1..Len(L) : L[i] = x

(***************************************************************************)
(* util.py.  measurementunits is config.Config['measurementunits'].        *)
(***************************************************************************)
\* 10.0**e
FPow10(e) == IF e >= 0 THEN FFromInt(10^e) ELSE FDiv(FFromInt(1), FFromInt(10^(-e)))

\* The float n / 2^k
FDyadic(n, k) == IF n = 0 THEN FZero ELSE [FFromInt(n) EXCEPT !.exp = @ - k]

\* in2gerb: inches (or mm) as a float to integer Gerber units
in2gerb(value, measurementunits) ==
    FRoundToInt(FMul(value, FPow10(IF measurementunits = "inch" THEN 5 ELSE 3)))

\* gerb2in of the number n / 2^k
gerb2in(n, k, measurementunits) ==
    FMul(FDyadic(n, k), FPow10(IF measurementunits = "inch" THEN -5 ELSE -3))

(***************************************************************************)
(* Commands of a layer.  A D-code string 'D' + digits is <<"D", n, z>>     *)
(* with n its integer value and z its number of leading zeros; "G%02d" is  *)
(* <<"G", n>>; an RS274X line is <<"%", text>>; a draw (x, y, d) is        *)
(* <<"XY", x, y, d>> and a circular draw (x, y, I, J, d, signed) is        *)
(* <<"IJ", x, y, I, J, d, signed>>.  A draw whose x or y is a float that   *)
(* is not an integer is <<"XYf", xn, yn, d, k>>, standing for              *)
(* (xn / 2^k, yn / 2^k, d) with k as small as possible.                    *)
(***************************************************************************)
\* 'D%d' % n
DCode(n) == <<"D", n, 0>>

IsTuple(cmd) == cmd[1] \in {"XY", "XYf", "IJ"}

RECURSIVE MkDraw(_, _, _, _)

\* The draw (xn / 2^k, yn / 2^k, d)
MkDraw(xn, yn, k, d) ==
    IF k = 0 THEN <<"XY", xn, yn, d>>
    ELSE IF xn % 2 = 0 /\ yn % 2 = 0 THEN MkDraw(xn \div 2, yn \div 2, k - 1, d)
    ELSE <<"XYf", xn, yn, d, k>>

\* The point of a 3-tuple draw as [x, y, k]: (x / 2^k, y / 2^k)
DrawPoint(cmd) ==
    IF cmd[1] = "XY" THEN [x |-> cmd[2], y |-> cmd[3], k |-> 0]
    ELSE [x |-> cmd[2], y |-> cmd[3], k |-> cmd[5]]

\* builtins.int on n / 2^k: truncation towards zero
IntOf(n, k) == SignInt(n) * (AbsInt(n) \div 2^k)

(***************************************************************************)
(* aptable.py and config.py.  An aperture is [apname, code, dimx, dimy]    *)
(* with float dimensions; dimy is FZero where the shape has none.  GAT is  *)
(* the dictionary config.GAT from global code to aperture.                 *)
(***************************************************************************)
Aperture(apname, code, dimx, dimy) == [apname |-> apname, code |-> code, dimx |-> dimx, dimy |-> dimy]

ApertureHash(A) == <<A.apname, A.dimx, A.dimy>>

isRectangle(A) == A.apname = "Rectangle"

\* The footprint of a flash at (X / 2^k, Y / 2^k), in units of 2^-k
rectangleAsRectDims(X, Y, k, dx, dy) ==
    <<X - ((dx + 1) \div 2) * 2^k, Y - ((dy + 1) \div 2) * 2^k,
      X + (dx \div 2) * 2^k, Y + (dy \div 2) * 2^k>>

rectangleAsRect(A, X, Y, k, measurementunits) ==
    rectangleAsRectDims(X, Y, k, in2gerb(A.dimx, measurementunits), in2gerb(A.dimy, measurementunits))

rotated(A) ==
    IF A.apname \in {"Rectangle", "Oval"} THEN [A EXCEPT !.dimx = A.dimy, !.dimy = A.dimx] ELSE A

\* config.buildRevDict(GAT): hash -> code
RevHas(GAT, hash) == \E i \in 1..Len(GAT) : ApertureHash(GAT[i][2]) = hash

RevGet(GAT, hash) == GAT[CHOOSE i \in 1..Len(GAT) : ApertureHash(GAT[i][2]) = hash][1]

\* findHighestApertureCode over the keys of the dictionary d
findHighestApertureCode(d) ==
    IF d = <<>> THEN 9
    ELSE CHOOSE n \in {d[i][1][2] : i \in 1..Len(d)} : \A j \in 1..Len(d) : d[j][1][2] <= n

\* addToApertureTable: the table with AP under a fresh code; the code is that of the last entry
addToApertureTable(GAT, AP) ==
    Append(GAT, <<DCode(findHighestApertureCode(GAT) + 1),
                  [AP EXCEPT !.code = DCode(findHighestApertureCode(GAT) + 1)]>>)

\* findOrAddAperture as [GAT, code]
findOrAddAperture(GAT, AP) ==
    IF RevHas(GAT, ApertureHash(AP)) THEN [GAT |-> GAT, code |-> RevGet(GAT, ApertureHash(AP))]
    ELSE [GAT |-> addToApertureTable(GAT, AP), code |-> DCode(findHighestApertureCode(GAT) + 1)]

(***************************************************************************)
(* gerber.py: GerberParser.  The object and the locals of parse() are one  *)
(* record; x_div and y_div hold the exponent e of the divisor 10.0**e.     *)
(* A file is a sequence of tokens:                                         *)
(*   <<"%LP", text>>              layer polarity line                      *)
(*   <<"%AD", code, A>>           aperture definition, A as parseAperture  *)
(*                                returns it (None if it returns nothing)  *)
(*   <<"%MO", "MM" or "IN">>, <<"%SF">>, <<"%AMOC8">>                      *)
(*   <<"G04">>                    comment                                  *)
(*   <<"%FS", "L"|"T", "A"|"I", xfrac, yfrac>>   format statement          *)
(*   <<"G", n>>                   G-code                                   *)
(*   <<"D", n, z>>                D-code followed by '*'                   *)
(*   <<"X.Y.D", x, y, d>>, <<"X.D", x, d>>, <<"Y.D", y, d>>                *)
(*   <<"X.Y.I.J.D", x, y, I, J, d>>, <<"X.I.J.D", x, I, J, d>>,            *)
(*   <<"Y.I.J.D", y, I, J, d>>                                             *)
(*   <<"ignored">>                a statement of IgnoreList                *)
(*   <<"other">>                  anything else                            *)
(***************************************************************************)
NoExtent == 9999999

GerberParser ==
    [apxlat |-> <<>>, commands |-> <<>>, apertures |-> <<>>,
     minx |-> NoExtent, miny |-> NoExtent, maxx |-> -NoExtent, maxy |-> -NoExtent,
     update_extents |-> FALSE, currtool |-> None, x_div |-> 0, y_div |-> 0,
     last_x |-> 0, last_y |-> 0, last_gmode |-> 1, circ_signed |-> TRUE,
     firstFlash |-> TRUE, err |-> ""]

\* The start of parse(filename, updateExtents)
parseStart(P, updateExtents) ==
    [GerberParser EXCEPT !.minx = P.minx, !.miny = P.miny, !.maxx = P.maxx, !.maxy = P.maxy,
                         !.update_extents = updateExtents]

raise(P, msg) == [P EXCEPT !.err = msg]

\* int(round(v * 10.0**e))
scaleCoordinate(v, e) ==
    IF e >= 0 THEN v * 10^e ELSE FRoundToInt(FMul(FFromInt(v), FPow10(e)))

parseApertureDefinition(P, code, A, GAT) ==
    IF P.currtool # None THEN raise(P, "aperture definition that comes after drawing commands")
    ELSE IF A = None THEN raise(P, "Unknown aperture definition")
    ELSE IF ~RevHas(GAT, ApertureHash(A)) THEN raise(P, "aperture definition not in global aperture table")
    ELSE [P EXCEPT !.apxlat = DictSet(@, code, RevGet(GAT, ApertureHash(A)))]

parseFormat(P, zeros, coords, xfrac, yfrac, measurementunits) ==
    IF zeros = "T" THEN raise(P, "Trailing zeroes not supported in RS274X files")
    ELSE IF coords = "I" THEN raise(P, "Incremental co-ordinates not supported in RS274X files")
    ELSE [P EXCEPT !.x_div = (IF measurementunits = "inch" THEN 5 ELSE 3) - xfrac,
                   !.y_div = (IF measurementunits = "inch" THEN 5 ELSE 3) - yfrac]

parseGCode(P, gcode) ==
    IF gcode \in {54, 70, 90, 71} THEN P
    ELSE IF gcode \in {1, 2, 3, 36, 37, 74, 75}
    THEN [P EXCEPT !.commands = Append(@, <<"G", gcode>>),
                   !.last_gmode = IF gcode \in {1, 36, 37} THEN gcode ELSE @,
                   !.circ_signed = IF gcode = 74 THEN FALSE ELSE IF gcode = 75 THEN TRUE ELSE @]
    ELSE raise(P, "G-Code is not supported")

\* 'D1', 'D2', 'D3' read as 'D01', 'D02', 'D03'
diptraceCode(tool) == IF tool \in {<<"D", 1, 0>>, <<"D", 2, 0>>, <<"D", 3, 0>>} THEN <<"D", tool[2], 1>> ELSE tool

\* The tool change swallowing every D02, in polygon fill mode or not
parseToolChangeCode_swallow(P, currtool) ==
    IF currtool \in {<<"D", 1, 1>>, <<"D", 2, 1>>}
    THEN [P EXCEPT !.currtool = currtool]
    ELSE IF currtool = <<"D", 3, 1>>
    THEN [P EXCEPT !.currtool = currtool, !.commands = Append(@, currtool)]
    ELSE IF ~DictHas(P.apxlat, currtool)
    THEN raise([P EXCEPT !.currtool = currtool], "tool change command with no corresponding translation")
    ELSE [P EXCEPT !.currtool = DictGet(P.apxlat, currtool),
                   !.commands = Append(@, DictGet(P.apxlat, currtool)),
                   !.apertures = Append(@, DictGet(P.apxlat, currtool))]

\* The tool change once currtool holds the code read
parseToolChangeCode(P, currtool) ==
    IF currtool = <<"D", 1, 1>> \/ (currtool = <<"D", 2, 1>> /\ P.last_gmode # 36)
    THEN [P EXCEPT !.currtool = currtool]
    ELSE IF currtool = <<"D", 3, 1>> \/ (currtool = <<"D", 2, 1>> /\ P.last_gmode = 36)
    THEN [P EXCEPT !.currtool = currtool, !.commands = Append(@, currtool)]
    ELSE IF ~DictHas(P.apxlat, currtool)
    THEN raise([P EXCEPT !.currtool = currtool], "tool change command with no corresponding translation")
    ELSE [P EXCEPT !.currtool = DictGet(P.apxlat, currtool),
                   !.commands = Append(@, DictGet(P.apxlat, currtool)),
                   !.apertures = Append(@, DictGet(P.apxlat, currtool))]

\* The tool change appending the code read instead of its translation
parseToolChange_local(P, tool) ==
    IF tool[2] >= 10 /\ DictHas(P.apxlat, tool)
    THEN [P EXCEPT !.currtool = tool, !.commands = Append(@, tool), !.apertures = Append(@, tool)]
    ELSE parseToolChangeCode(P, diptraceCode(tool))

parseToolChange(P, tool) == parseToolChangeCode(P, diptraceCode(tool))

\* The extents after a command at (x, y), if this layer updates them
drawExtents(P, x, y) ==
    IF P.update_extents
    THEN [P EXCEPT !.minx = Min2(@, x), !.maxx = Max2(@, x), !.miny = Min2(@, y), !.maxy = Max2(@, y)]
    ELSE P

\* The command appended with its scaled coordinates, after the (0, 0, 2) of a first shorthand
parseDrawAppend(P, x, y, cmd) ==
    drawExtents([P EXCEPT !.commands = Append(@, cmd), !.firstFlash = FALSE], x, y)

parseDrawScaled(P, x, y, IJ, d) ==
    parseDrawAppend(P, scaleCoordinate(x, P.x_div), scaleCoordinate(y, P.y_div),
        IF IJ = None
        THEN <<"XY", scaleCoordinate(x, P.x_div), scaleCoordinate(y, P.y_div), d>>
        ELSE <<"IJ", scaleCoordinate(x, P.x_div), scaleCoordinate(y, P.y_div),
               scaleCoordinate(IJ[1], P.x_div), scaleCoordinate(IJ[2], P.y_div), d,
               IF P.circ_signed THEN 1 ELSE 0>>)

\* A draw command that puts (0, 0, 2) before every shorthand command
parseDraw_everyShorthand(P, x, y, IJ, d, isLastShorthand) ==
    IF P.currtool = None /\ d # 2 /\ P.last_gmode # 36
    THEN raise(P, "draw command with no aperture chosen")
    ELSE parseDrawScaled(
             IF isLastShorthand
             THEN drawExtents([P EXCEPT !.last_x = x, !.last_y = y,
                                        !.commands = Append(@, <<"XY", 0, 0, 2>>)], 0, 0)
             ELSE [P EXCEPT !.last_x = x, !.last_y = y],
             x, y, IJ, d)

\* A draw command (x, y, IJ, d); IJ is None or <<I, J>>
parseDraw(P, x, y, IJ, d, isLastShorthand) ==
    IF P.currtool = None /\ d # 2 /\ P.last_gmode # 36
    THEN raise(P, "draw command with no aperture chosen")
    ELSE parseDrawScaled(
             IF isLastShorthand /\ P.firstFlash
             THEN drawExtents([P EXCEPT !.last_x = x, !.last_y = y,
                                        !.commands = Append(@, <<"XY", 0, 0, 2>>)], 0, 0)
             ELSE [P EXCEPT !.last_x = x, !.last_y = y],
             x, y, IJ, d)

\* One pass of the loops of parse() over the next statement of the file
parseToken(P, tok, GAT, measurementunits) ==
    CASE tok[1] = "%LP" -> [P EXCEPT !.commands = Append(@, <<"%", tok[2]>>)]
      [] tok[1] = "%AD" -> parseApertureDefinition(P, tok[2], tok[3], GAT)
      [] tok[1] = "%AMOC8" -> P
      [] tok[1] = "%MO" ->
            IF tok[2] = "MM" /\ measurementunits = "inch"
            THEN raise(P, "units do match config file") ELSE P
      [] tok[1] = "%SF" -> P
      [] tok[1] = "G04" -> P
      [] tok[1] = "%FS" -> parseFormat(P, tok[2], tok[3], tok[4], tok[5], measurementunits)
      [] tok[1] = "G" -> parseGCode(P, tok[2])
      [] tok[1] = "D" -> parseToolChange(P, tok)
      [] tok[1] = "X.Y.D" -> parseDraw(P, tok[2], tok[3], None, tok[4], FALSE)
      [] tok[1] = "X.D" -> parseDraw(P, tok[2], P.last_y, None, tok[3], TRUE)
      [] tok[1] = "Y.D" -> parseDraw(P, P.last_x, tok[2], None, tok[3], TRUE)
      [] tok[1] = "X.Y.I.J.D" -> parseDraw(P, tok[2], tok[3], <<tok[4], tok[5]>>, tok[6], FALSE)
      [] tok[1] = "X.I.J.D" -> parseDraw(P, tok[2], P.last_y, <<tok[3], tok[4]>>, tok[5], TRUE)
      [] tok[1] = "Y.I.J.D" -> parseDraw(P, P.last_x, tok[2], <<tok[3], tok[4]>>, tok[5], TRUE)
      [] tok[1] = "ignored" -> P
      [] OTHER -> raise(P, "uninterpretable line")

inBorders(P, x, y, k) ==
    (P.minx * 2^k <= x /\ x <= P.maxx * 2^k) /\ (P.miny * 2^k <= y /\ y <= P.maxy * 2^k)

updateExtents(P, extents) ==
    [P EXCEPT !.minx = extents[1], !.miny = extents[2], !.maxx = extents[3], !.maxy = extents[4]]

rectWidth(rect) == AbsInt(rect[3] - rect[1])

rectHeight(rect) == AbsInt(rect[4] - rect[2])

(***************************************************************************)
(* GerberParser.trim.  The loop state T holds newcmds, lastInBorders, the  *)
(* last point as [x, y, k], lastAperture, the global table GAT and the     *)
(* apxlat and apertures of the layer, and err once an exception is raised. *)
(***************************************************************************)
trimStart(P, GAT) ==
    [newcmds |-> <<>>, lastInBorders |-> TRUE, last |-> [x |-> P.minx, y |-> P.miny, k |-> 0],
     lastAperture |-> None, GAT |-> GAT, apxlat |-> P.apxlat, apertures |-> P.apertures,
     err |-> ""]

\* makeLocalApertureCode for an aperture with global code `code`
makeLocalApertureCode(apxlat, code) ==
    IF \E i \in 1..Len(apxlat) : apxlat[i][2] = code THEN apxlat
    ELSE Append(apxlat, <<DCode(findHighestApertureCode(apxlat) + 1), code>>)

\* The flash replaced by one through the aperture found or added as fa
trimFlashReplace(T, newRect, k, fa) ==
    [T EXCEPT !.GAT = fa.GAT,
              !.apxlat = makeLocalApertureCode(@, fa.code),
              !.apertures = IF InList(@, fa.code) THEN @ ELSE Append(@, fa.code),
              !.newcmds = @ \o <<fa.code,
                                 MkDraw(rectWidth(newRect), rectHeight(newRect), k + 1, 3),
                                 T.lastAperture.code>>]

\* The flash whose footprint leaves the borders, newRect being what they have in common
trimFlashClip(T, newRect, k, measurementunits) ==
    IF newRect = None THEN T
    ELSE IF Min2(rectWidth(newRect), rectHeight(newRect)) >= 10 * 2^k
    THEN trimFlashReplace(T, newRect, k,
             findOrAddAperture(T.GAT,
                 Aperture("Rectangle", <<"D", 0, 0>>,
                          gerb2in(rectWidth(newRect), k, measurementunits),
                          gerb2in(rectHeight(newRect), k, measurementunits))))
    ELSE T

\* A rectangular flash kept whole as soon as its footprint meets the borders
trimFlashRect_whole(T, cmd, apertureRect, bordersRect, k, measurementunits) ==
    IF intersectExtents(apertureRect, bordersRect) # None THEN [T EXCEPT !.newcmds = Append(@, cmd)]
    ELSE T

\* A flash through a rectangular aperture with footprint apertureRect
trimFlashRect(T, cmd, apertureRect, bordersRect, k, measurementunits) ==
    IF isRect1InRect2(apertureRect, bordersRect) THEN [T EXCEPT !.newcmds = Append(@, cmd)]
    ELSE trimFlashClip(T, intersectExtents(apertureRect, bordersRect), k, measurementunits)

trimFlash(T, cmd, p, P, measurementunits) ==
    IF T.lastAperture = None THEN [T EXCEPT !.err = "AttributeError"]
    ELSE IF isRectangle(T.lastAperture)
    THEN trimFlashRect(T, cmd, rectangleAsRect(T.lastAperture, p.x, p.y, p.k, measurementunits),
                       scaleRect(<<P.minx, P.miny, P.maxx, P.maxy>>, p.k), p.k, measurementunits)
    ELSE IF inBorders(P, p.x, p.y, p.k) THEN [T EXCEPT !.newcmds = Append(@, cmd)]
    ELSE T

\* An exposure-on draw with an end outside the borders, given segmentXbox's lists r
trimDrawPoints(T, cmd, p, newInBorders, r) ==
    IF r.numPts > 2 THEN [T EXCEPT !.err = "AssertionError"]
    ELSE IF Len(segmentXboxResult(r)) = 0 THEN T
    ELSE IF Len(segmentXboxResult(r)) = 1
    THEN IF newInBorders
         THEN [T EXCEPT !.newcmds = @ \o <<<<"XY", segmentXboxResult(r)[1][1], segmentXboxResult(r)[1][2], 2>>, cmd>>]
         ELSE [T EXCEPT !.newcmds = @ \o <<<<"XY", segmentXboxResult(r)[1][1], segmentXboxResult(r)[1][2], 1>>,
                                           MkDraw(p.x, p.y, p.k, 2)>>]
    ELSE [T EXCEPT !.newcmds = @ \o <<<<"XY", segmentXboxResult(r)[1][1], segmentXboxResult(r)[1][2], 2>>,
                                      <<"XY", segmentXboxResult(r)[2][1], segmentXboxResult(r)[2][2], 1>>,
                                      MkDraw(p.x, p.y, p.k, 2)>>]

\* An exposure-on draw from T.last to p; sh is the larger of their scales
trimDraw(T, cmd, p, P, newInBorders, sh) ==
    IF T.lastInBorders /\ newInBorders THEN [T EXCEPT !.newcmds = Append(@, cmd)]
    ELSE trimDrawPoints(T, cmd, p, newInBorders,
             segmentXboxLists(<<T.last.x * 2^(sh - T.last.k), T.last.y * 2^(sh - T.last.k)>>,
                              <<p.x * 2^(sh - p.k), p.y * 2^(sh - p.k)>>,
                              <<P.minx, P.miny>>, <<P.maxx, P.maxy>>, sh))

\* The 3-tuple cmd with its point p
trimTuple(T, cmd, p, P, measurementunits) ==
    IF cmd[4] = 3 THEN trimFlash(T, cmd, p, P, measurementunits)
    ELSE IF cmd[4] = 2
    THEN IF inBorders(P, p.x, p.y, p.k) THEN [T EXCEPT !.newcmds = Append(@, cmd)] ELSE T
    ELSE trimDraw(T, cmd, p, P, inBorders(P, p.x, p.y, p.k), Max2(T.last.k, p.k))

\* lastx, lasty and lastInBorders after the 3-tuple
trimAdvance(T, p, P) ==
    IF T.err # "" THEN T ELSE [T EXCEPT !.last = p, !.lastInBorders = inBorders(P, p.x, p.y, p.k)]

\* One pass of the loop of trim() that leaves circular draws out
trimCommand_nocircular(T, cmd, P, measurementunits) ==
    IF cmd[1] = "IJ" THEN T
    ELSE IF IsTuple(cmd) THEN trimAdvance(trimTuple(T, cmd, DrawPoint(cmd), P, measurementunits), DrawPoint(cmd), P)
    ELSE [T EXCEPT !.newcmds = Append(@, cmd),
                   !.lastAperture = IF cmd[1] = "D" /\ cmd[2] >= 10 THEN DictGet(T.GAT, cmd) ELSE @]

\* One pass of the loop of trim()
trimCommand(T, cmd, P, measurementunits) ==
    IF cmd[1] = "IJ" THEN [T EXCEPT !.newcmds = Append(@, cmd)]
    ELSE IF IsTuple(cmd) THEN trimAdvance(trimTuple(T, cmd, DrawPoint(cmd), P, measurementunits), DrawPoint(cmd), P)
    ELSE [T EXCEPT !.newcmds = Append(@, cmd),
                   !.lastAperture = IF cmd[1] = "D" /\ cmd[2] >= 10 THEN DictGet(T.GAT, cmd) ELSE @]

RECURSIVE trimLoop(_, _, _, _)

trimLoop(T, cmds, P, measurementunits) ==
    IF cmds = <<>> \/ T.err # "" THEN T
    ELSE trimLoop(trimCommand(T, Head(cmds), P, measurementunits), Tail(cmds), P, measurementunits)

\* trim(): the layer, the global table and the exception raised, if any
trimResult(P, T) ==
    [P |-> IF T.err # "" THEN [P EXCEPT !.apxlat = T.apxlat, !.apertures = T.apertures]
           ELSE [P EXCEPT !.apxlat = T.apxlat, !.apertures = T.apertures, !.commands = T.newcmds],
     GAT |-> T.GAT, err |-> T.err]

trim(P, GAT, measurementunits) == trimResult(P, trimLoop(trimStart(P, GAT), P.commands, P, measurementunits))

(***************************************************************************)
(* excellon.py: ExcellonParser.  A tool name 'T%02d' % n is <<"T", n>>.    *)
(* The object and the locals of parse() are one record.  A file is a       *)
(* sequence of lines:                                                      *)
(*   <<"FMAT", n>>, <<"G9", n, eol>> (G90 / G91; eol is "\n" unless the    *)
(*   file ends there), <<"G0">>, <<"METRIC">>, <<";">>, <<"INCH", "L"|"T">>*)
(*   <<"TC", n, z, diam>>   tool definition, the tool number with value n  *)
(*                          and z leading zeros, diam the float read       *)
(*   <<"T", n, z>>          tool selection                                 *)
(*   <<"X", v, len>>, <<"Y", v, len>>   plunge with one ordinate, a string *)
(*                          of len characters whose int() is v             *)
(*   <<"X.Y">>              plunge X<d.d>Y<d.d> (what xydraw_pat matches)  *)
(*   <<"XY", xv, xlen, yv, ylen>>   plunge X<digits>Y<digits>, which none  *)
(*                          of xydraw_pat, xdraw_pat, ydraw_pat matches    *)
(*   <<"ignored">>, <<"other">>                                            *)
(***************************************************************************)
ExcellonParser(decimals) ==
    [decimals |-> decimals, xdiam |-> <<>>, ToolList |-> <<>>, xcommands |-> <<>>,
     minx |-> NoExtent, miny |-> NoExtent, maxx |-> -NoExtent, maxy |-> -NoExtent,
     mode |-> "Absolute", currtool |-> None, suppress_leading |-> TRUE,
     last_x |-> 0, last_y |-> 0, err |-> ""]

\* The digits of a tool number start with '00'
startsT00(n, z) == z >= 2 \/ (z = 1 /\ n = 0)

\* xln2tenthou on one string: decimals is the number of decimals in force
xln2tenthou(v, len, decimals, suppress_leading) ==
    scaleCoordinate(IF suppress_leading \/ 2 + decimals <= len THEN v
                    ELSE v * 10^(2 + decimals - len),
                    4 - decimals)

xparseToolDefinition(X, tool, diam) ==
    IF DictHas(X.xdiam, tool) THEN raise([X EXCEPT !.currtool = tool], "defines tool more than once")
    ELSE [X EXCEPT !.currtool = tool, !.xdiam = DictSet(@, tool, diam)]

xparseToolSelect(X, tool, DefaultToolList) ==
    IF DictHas(X.xdiam, tool) THEN [X EXCEPT !.currtool = tool]
    ELSE IF X.ToolList # <<>>
    THEN IF DictHas(X.ToolList, tool)
         THEN [X EXCEPT !.currtool = tool, !.xdiam = DictSet(@, tool, DictGet(X.ToolList, tool))]
         ELSE raise([X EXCEPT !.currtool = tool], "tool code that is not defined in the job's tool list")
    ELSE IF DictHas(DefaultToolList, tool)
    THEN [X EXCEPT !.currtool = tool, !.xdiam = DictSet(@, tool, DictGet(DefaultToolList, tool))]
    ELSE raise([X EXCEPT !.currtool = tool], "tool code that is not defined in default tool list")

xparsePlunge(X, x, y) ==
    IF X.currtool = None THEN raise(X, "plunge command without previous tool selection")
    ELSE [X EXCEPT !.xcommands = IF DictHas(@, X.currtool)
                                 THEN DictSet(@, X.currtool, Append(DictGet(@, X.currtool), <<x, y>>))
                                 ELSE DictSet(@, X.currtool, <<<<x, y>>>>),
                   !.last_x = x, !.last_y = y]

\* One pass of the loop of parse() over the next line; decimals is self.decimals
\* if positive and config.Config['excellondecimals'] otherwise
xparseLine(X, line, decimals, measurementunits, DefaultToolList) ==
    CASE line[1] = "FMAT" -> X
      [] line[1] = "G9" ->
            IF line[3] = "\n" THEN X
            ELSE [X EXCEPT !.mode = IF line[2] = 0 THEN "Absolute" ELSE "Incremental"]
      [] line[1] = "G0" -> X
      [] line[1] = "METRIC" ->
            IF measurementunits = "inch" THEN raise(X, "units do match config file") ELSE X
      [] line[1] \in {"TC", "T"} /\ startsT00(line[2], line[3]) -> X
      [] line[1] = ";" -> X
      [] line[1] = "INCH" -> [X EXCEPT !.suppress_leading = (line[2] # "L")]
      [] line[1] = "TC" /\ ~startsT00(line[2], line[3]) -> xparseToolDefinition(X, <<"T", line[2]>>, line[4])
      [] line[1] = "T" /\ ~startsT00(line[2], line[3]) -> xparseToolSelect(X, <<"T", line[2]>>, DefaultToolList)
      [] line[1] = "X.Y" -> raise(X, "ValueError")
      [] line[1] = "XY" -> raise(X, "uninterpretable line")
      [] line[1] = "X" -> xparsePlunge(X, xln2tenthou(line[2], line[3], decimals, X.suppress_leading), X.last_y)
      [] line[1] = "Y" -> xparsePlunge(X, X.last_x, xln2tenthou(line[2], line[3], decimals, X.suppress_leading))
      [] line[1] = "ignored" -> X
      [] OTHER -> raise(X, "uninterpretable line")

\* The plunges of L that trim() keeps
xtrimValid(X, L, measurementunits) ==
    SelectSeq(L, LAMBDA p :
        IF measurementunits = "inch"
        THEN (10 * p[1] >= X.minx /\ 10 * p[1] <= X.maxx) /\ (10 * p[2] >= X.miny /\ 10 * p[2] <= X.maxy)
        ELSE (FCmpInt(FMul(FPow10(-1), FFromInt(p[1])), X.minx) >= 0
              /\ FCmpInt(FMul(FPow10(-1), FFromInt(p[1])), X.maxx) <= 0)
             /\ (FCmpInt(FMul(FPow10(-1), FFromInt(p[2])), X.miny) >= 0
                 /\ FCmpInt(FMul(FPow10(-1), FFromInt(p[2])), X.maxy) <= 0))

\* trim() leaving an emptied tool in xcommands with no plunges
xtrimTool_keepempty(X, toolname, validList) ==
    IF validList # <<>> THEN [X EXCEPT !.xcommands = DictSet(@, toolname, validList)]
    ELSE IF ~DictHas(X.xdiam, toolname)
    THEN [X EXCEPT !.xcommands = DictSet(@, toolname, <<>>), !.err = "KeyError"]
    ELSE [X EXCEPT !.xcommands = DictSet(@, toolname, <<>>), !.xdiam = DictDel(@, toolname)]

\* trim() taking an emptied tool out of xcommands alone
xtrimTool_keepdiam(X, toolname, validList) ==
    IF validList # <<>> THEN [X EXCEPT !.xcommands = DictSet(@, toolname, validList)]
    ELSE [X EXCEPT !.xcommands = DictDel(@, toolname)]

\* One pass of the loop of trim() for a tool with the plunges validList left
xtrimTool(X, toolname, validList) ==
    IF validList # <<>> THEN [X EXCEPT !.xcommands = DictSet(@, toolname, validList)]
    ELSE IF ~DictHas(X.xdiam, toolname)
    THEN [X EXCEPT !.xcommands = DictDel(@, toolname), !.err = "KeyError"]
    ELSE [X EXCEPT !.xcommands = DictDel(@, toolname), !.xdiam = DictDel(@, toolname)]

RECURSIVE xtrimLoop(_, _, _)

\* trim() over the tool names keys
xtrimLoop(X, keys, measurementunits) ==
    IF keys = <<>> \/ X.err # "" THEN X
    ELSE xtrimLoop(xtrimTool(X, keys[1][1], xtrimValid(X, DictGet(X.xcommands, keys[1][1]), measurementunits)),
                   Tail(keys), measurementunits)

xtrim(X, measurementunits) == xtrimLoop(X, X.xcommands, measurementunits)

(***************************************************************************)
(* jobs.py: Job and rotateJob.  gerbers is the dictionary from layer name  *)
(* to GerberParser, drills the ExcellonParser or None.                     *)
(***************************************************************************)
Job(name) ==
    [name |-> name, minx |-> NoExtent, miny |-> NoExtent, maxx |-> -NoExtent, maxy |-> -NoExtent,
     Repeat |-> 1, drills |-> None, gerbers |-> <<>>, err |-> ""]

\* GerberParser.extents
extents(P) == <<P.minx, P.miny, P.maxx, P.maxy>>

\* Job.updateExtents
jobUpdateExtents(J, ext) ==
    IF J.drills = None THEN [updateExtents(J, ext) EXCEPT !.err = "AttributeError"]
    ELSE [updateExtents(J, ext) EXCEPT
             !.drills = updateExtents(@, ext),
             !.gerbers = [i \in 1..Len(@) |-> <<@[i][1], updateExtents(@[i][2], ext)>>]]

\* Job.parseGerber once the layer P has been parsed
jobParseGerber(J, layername, P) ==
    IF P.update_extents THEN jobUpdateExtents([J EXCEPT !.gerbers = DictSet(@, layername, P)], extents(P))
    ELSE [J EXCEPT !.gerbers = DictSet(@, layername, P)]

\* Job.fixcoordinates: the extents are shifted, then the loop over
\* self.commands, an attribute that no Job has, raises AttributeError
fixcoordinates(J, x_shift, y_shift) ==
    [J EXCEPT !.minx = @ + x_shift, !.maxx = @ + x_shift,
              !.miny = @ + y_shift, !.maxy = @ + y_shift,
              !.err = "AttributeError"]

\* The shift merge asks for: the absolute value of a negative minimum
mergeShift(min) == IF min < 0 THEN AbsInt(min) ELSE 0

RECURSIVE jobTrimGerberLoop(_, _, _, _)

\* One layer of Job.trimGerber: r is what trim() returned for layer i
jobTrimGerberLayer(J, r, i, measurementunits) ==
    jobTrimGerberLoop([J EXCEPT !.gerbers[i][2] = r.P, !.err = r.err], r.GAT, i + 1, measurementunits)

\* Job.trimGerber from layer i on, as [J, GAT]
jobTrimGerberLoop(J, GAT0, i, measurementunits) ==
    IF i > Len(J.gerbers) \/ J.err # "" THEN [J |-> J, GAT |-> GAT0]
    ELSE jobTrimGerberLayer(J, trim(J.gerbers[i][2], GAT0, measurementunits), i, measurementunits)

jobTrimGerber(J, GAT0, measurementunits) == jobTrimGerberLoop(J, GAT0, 1, measurementunits)

\* The apxlat entry of rotateJob entering every rotated aperture under a new code
rotateAperture_alwaysadd(R, ap, code, fa) ==
    IF DictGet(R.GAT, code).apname \in {"Circle", "Octagon"}
    THEN [R EXCEPT !.apxlat = DictSet(@, ap, code)]
    ELSE [R EXCEPT !.GAT = addToApertureTable(R.GAT, rotated(DictGet(R.GAT, code))),
                   !.apxlat = DictSet(@, ap, DCode(findHighestApertureCode(R.GAT) + 1)),
                   !.ToolChangeReplace = DictSet(@, code, DCode(findHighestApertureCode(R.GAT) + 1))]

\* One apxlat entry ap -> code of the first loop of rotateJob; R is
\* [GAT, ToolChangeReplace, apxlat, gerbers]
rotateAperture(R, ap, code, fa) ==
    IF DictGet(R.GAT, code).apname \in {"Circle", "Octagon"}
    THEN [R EXCEPT !.apxlat = DictSet(@, ap, code)]
    ELSE [R EXCEPT !.GAT = fa.GAT, !.apxlat = DictSet(@, ap, fa.code),
                   !.ToolChangeReplace = DictSet(@, code, fa.code)]

RECURSIVE rotateApertures(_, _)

rotateApertures(R, apxlat) ==
    IF apxlat = <<>> THEN R
    ELSE rotateApertures(
             rotateAperture(R, apxlat[1][1], apxlat[1][2],
                            findOrAddAperture(R.GAT, rotated(DictGet(R.GAT, apxlat[1][2])))),
             Tail(apxlat))

rotateLayerTable(R, layername) ==
    [R EXCEPT !.gerbers = Append(@, <<layername, [GerberParser EXCEPT !.apxlat = R.apxlat]>>)]

RECURSIVE rotateLayerTables(_, _)

rotateLayerTables(R, gerbers) ==
    IF gerbers = <<>> THEN R
    ELSE rotateLayerTables(
             rotateLayerTable(rotateApertures([R EXCEPT !.apxlat = <<>>], gerbers[1][2].apxlat),
                              gerbers[1][1]),
             Tail(gerbers))

\* The rotated abscissa without the shift by the height of the job
rotateX_noshift(job, y) == -(y - job.miny) + job.minx

\* The rotated position of the integers (x, y)
rotateX(job, y) == -(y - job.miny) + job.minx + (job.maxy - job.miny)

rotateY(job, x) == (x - job.minx) + job.miny

\* The second loop of rotateJob copying every aperture selection as it is
rotateCommand_samecode(P, cmd, job, ToolChangeReplace) ==
    CASE cmd[1] \in {"G", "%"} -> [P EXCEPT !.commands = Append(@, cmd)]
      [] cmd[1] = "D" ->
            IF cmd[2] < 10 THEN [P EXCEPT !.commands = Append(@, cmd)]
            ELSE [P EXCEPT !.commands = Append(@, cmd), !.apertures = Append(@, cmd)]
      [] cmd[1] = "XY" ->
            [P EXCEPT !.commands = Append(@, <<"XY", rotateX(job, cmd[3]), rotateY(job, cmd[2]), cmd[4]>>)]
      [] cmd[1] = "XYf" ->
            [P EXCEPT !.commands = Append(@, <<"XY", rotateX(job, IntOf(cmd[3], cmd[5])),
                                               rotateY(job, IntOf(cmd[2], cmd[5])), cmd[4]>>)]
      [] cmd[1] = "IJ" ->
            [P EXCEPT !.commands = Append(@, <<"IJ", rotateX(job, cmd[3]), rotateY(job, cmd[2]),
                                               IF cmd[7] # 0 THEN -cmd[5] ELSE cmd[5], cmd[4], cmd[6], cmd[7]>>)]

\* One command of a layer in the second loop of rotateJob
rotateCommand(P, cmd, job, ToolChangeReplace) ==
    CASE cmd[1] \in {"G", "%"} -> [P EXCEPT !.commands = Append(@, cmd)]
      [] cmd[1] = "D" ->
            IF cmd[2] < 10 THEN [P EXCEPT !.commands = Append(@, cmd)]
            ELSE IF DictHas(ToolChangeReplace, cmd)
            THEN [P EXCEPT !.commands = Append(@, DictGet(ToolChangeReplace, cmd)),
                           !.apertures = Append(@, DictGet(ToolChangeReplace, cmd))]
            ELSE [P EXCEPT !.commands = Append(@, cmd), !.apertures = Append(@, cmd)]
      [] cmd[1] = "XY" ->
            [P EXCEPT !.commands = Append(@, <<"XY", rotateX(job, cmd[3]), rotateY(job, cmd[2]), cmd[4]>>)]
      [] cmd[1] = "XYf" ->
            [P EXCEPT !.commands = Append(@, <<"XY", rotateX(job, IntOf(cmd[3], cmd[5])),
                                               rotateY(job, IntOf(cmd[2], cmd[5])), cmd[4]>>)]
      [] cmd[1] = "IJ" ->
            [P EXCEPT !.commands = Append(@, <<"IJ", rotateX(job, cmd[3]), rotateY(job, cmd[2]),
                                               IF cmd[7] # 0 THEN -cmd[5] ELSE cmd[5], cmd[4], cmd[6], cmd[7]>>)]

RECURSIVE rotateCommands(_, _, _, _)

rotateCommands(P, commands, job, ToolChangeReplace) ==
    IF commands = <<>> THEN P
    ELSE rotateCommands(rotateCommand(P, commands[1], job, ToolChangeReplace), Tail(commands),
                        job, ToolChangeReplace)

\* int(round(v / 10.0))
roundTenth(v) == FRoundToInt(FDiv(FFromInt(v), FFromInt(10)))

\* The last loop of rotateJob over the plunges of one tool
rotatePlunges(L, job) ==
    [i \in 1..Len(L) |-> <<roundTenth(-(10 * L[i][2] - job.miny) + job.minx + (job.maxy - job.miny)),
                           roundTenth((10 * L[i][1] - job.minx) + job.miny)>>]

rotateDrills(X, job) ==
    [X EXCEPT !.xcommands = [i \in 1..Len(@) |-> <<@[i][1], rotatePlunges(@[i][2], job)>>]]

\* The new job of rotateJob(job, 90) once the apertures are rotated (R)
rotateJobBuild(job, R) ==
    [Job(job.name \o "*rotated90") EXCEPT
        !.maxx = job.minx + job.maxy - job.miny,
        !.maxy = job.miny + job.maxx - job.minx,
        !.minx = job.minx,
        !.miny = job.miny,
        !.Repeat = job.Repeat,
        !.gerbers = [i \in 1..Len(R.gerbers) |->
                        <<R.gerbers[i][1],
                          rotateCommands(R.gerbers[i][2], job.gerbers[i][2].commands, job,
                                         R.ToolChangeReplace)>>],
        !.drills = IF job.drills = None THEN None ELSE rotateDrills(job.drills, job),
        !.err = IF job.drills = None THEN "AttributeError" ELSE ""]

\* rotateJob(job, 90) as [J, GAT]
rotateJobTables(job, R) == [J |-> rotateJobBuild(job, R), GAT |-> R.GAT]

rotateJob(job, GAT0) ==
    rotateJobTables(job, rotateLayerTables([GAT |-> GAT0, ToolChangeReplace |-> <<>>,
                                            apxlat |-> <<>>, gerbers |-> <<>>], job.gerbers))

(* ------------------------------------------------------------------ *)
(* Calls of segmentXbox: one segment and one box, then the same call   *)
(* with the endpoints exchanged and with the box corners exchanged.    *)
(* ------------------------------------------------------------------ *)

GridMax == 4

GridPoints == {<<x, y>> : x \in 0..GridMax, y \in 0..GridMax}

\* Boxes handed to segmentXbox as two corner points.
GeomBoxes == {<<<<1, 1>>, <<3, 3>>>>, <<<<1, 2>>, <<2, 4>>>>, <<<<1, 2>>, <<3, 2>>>>}

NoCall == [L |-> <<>>, corners |-> <<>>, numPts |-> 0, rawL |-> <<>>, rawCorners |-> <<>>]

VARIABLES pt1, pt2, llpt, urpt, xbox, xboxEnds, xboxCorners, gpc

geomVars == <<pt1, pt2, llpt, urpt, xbox, xboxEnds, xboxCorners, gpc>>

VARIABLES rectA, rectB, rpoint, rres, rpc

rectVars == <<rectA, rectB, rpoint, rres, rpc>>

\* Config is config.Config, GAT is config.GAT; layer is the GerberParser at work,
\* gfile the statements of its file still to be read where the file is fixed in
\* advance, gdone the statements read; trimlog has one entry per call of trim().
VARIABLES Config, GAT, layer, gfile, gdone, lpc, trimlog

gerberVars == <<Config, GAT, layer, gfile, gdone, lpc, trimlog>>

\* drills is the ExcellonParser at work, xfile the lines of its file still to be
\* read where the file is fixed in advance, xdone the lines read; xtrimlog has
\* one entry per call of trim().
VARIABLES drills, xfile, xdone, xpc, xtrimlog

excellonVars == <<drills, xfile, xdone, xpc, xtrimlog>>

\* job is the Job, job0 the job before its first rotation, nrot the number of
\* rotations made.
VARIABLES job, job0, nrot, jpc

jobVars == <<job, job0, nrot, jpc>>

vars == <<geomVars, rectVars, gerberVars, excellonVars, jobVars>>

JobIdle == job = Job("job") /\ job0 = Job("job") /\ nrot = 0 /\ jpc = "idle"

ExcellonIdle ==
    /\ drills = ExcellonParser(0) /\ xfile = <<>> /\ xdone = <<>> /\ xpc = "idle" /\ xtrimlog = <<>>

GerberIdle ==
    /\ Config = [measurementunits |-> "inch", excellondecimals |-> 4] /\ GAT = <<>> /\ layer = GerberParser
    /\ gfile = <<>> /\ gdone = <<>> /\ lpc = "idle" /\ trimlog = <<>>

RectIdle ==
    /\ rectA = <<0, 0, 0, 0>> /\ rectB = <<0, 0, 0, 0>> /\ rpoint = <<0, 0>>
    /\ rres = <<>> /\ rpc = 0

GeomIdle ==
    /\ pt1 = <<0, 0>> /\ pt2 = <<0, 0>> /\ llpt = <<0, 0>> /\ urpt = <<0, 0>>
    /\ xbox = NoCall /\ xboxEnds = NoCall /\ xboxCorners = NoCall
    /\ gpc = 0

GeomInit ==
    /\ pt1 \in GridPoints /\ pt2 \in GridPoints
    /\ \E b \in GeomBoxes : llpt = b[1] /\ urpt = b[2]
    /\ xbox = NoCall /\ xboxEnds = NoCall /\ xboxCorners = NoCall
    /\ gpc = 0
    /\ RectIdle /\ GerberIdle /\ ExcellonIdle /\ JobIdle

CallSegmentXbox ==
    /\ gpc = 0
    /\ UNCHANGED <<rectVars, gerberVars, excellonVars, jobVars>>
    /\ xbox' = segmentXboxLists(pt1, pt2, llpt, urpt, 0)
    /\ gpc' = 1
    /\ UNCHANGED <<pt1, pt2, llpt, urpt, xboxEnds, xboxCorners>>

CallSwappedEndpoints ==
    /\ gpc = 1
    /\ UNCHANGED <<rectVars, gerberVars, excellonVars, jobVars>>
    /\ xboxEnds' = segmentXboxLists(pt2, pt1, llpt, urpt, 0)
    /\ gpc' = 2
    /\ UNCHANGED <<pt1, pt2, llpt, urpt, xbox, xboxCorners>>

CallSwappedCorners ==
    /\ gpc = 2
    /\ UNCHANGED <<rectVars, gerberVars, excellonVars, jobVars>>
    /\ xboxCorners' = segmentXboxLists(pt1, pt2, urpt, llpt, 0)
    /\ gpc' = 3
    /\ UNCHANGED <<pt1, pt2, llpt, urpt, xbox, xboxEnds>>

GeomNext == CallSegmentXbox \/ CallSwappedEndpoints \/ CallSwappedCorners

SpecGeom == GeomInit /\ [][GeomNext]_vars

(* ------------------------------------------------------------------ *)
(* Properties of segmentXbox                                           *)
(* ------------------------------------------------------------------ *)

GeomRect == canonicalizeExtents2(llpt, urpt).rect

\* Exact rationals <<numerator, denominator>> with a positive denominator.
RatLess(a, b) == a[1] * b[2] < b[1] * a[2]

RatMax(a, b) == IF RatLess(a, b) THEN b ELSE a

RatMin(a, b) == IF RatLess(b, a) THEN b ELSE a

\* The parameters t of p + t*d (0 <= t <= 1) strictly between lo and hi, as <<tlo, thi>>.
ClipAxis(p, d, lo, hi) ==
    IF d = 0 THEN IF lo < p /\ p < hi THEN <<<<0, 1>>, <<1, 1>>>> ELSE <<<<1, 1>>, <<0, 1>>>>
    ELSE IF d > 0 THEN <<RatMax(<<0, 1>>, <<lo - p, d>>), RatMin(<<1, 1>>, <<hi - p, d>>)>>
    ELSE <<RatMax(<<0, 1>>, <<p - hi, -d>>), RatMin(<<1, 1>>, <<p - lo, -d>>)>>

\* Entry and exit parameters of the segment pt1-pt2 through the open box.
ClipEntry ==
    RatMax(ClipAxis(pt1[1], pt2[1] - pt1[1], GeomRect[1], GeomRect[3])[1],
           ClipAxis(pt1[2], pt2[2] - pt1[2], GeomRect[2], GeomRect[4])[1])

ClipExit ==
    RatMin(ClipAxis(pt1[1], pt2[1] - pt1[1], GeomRect[1], GeomRect[3])[2],
           ClipAxis(pt1[2], pt2[2] - pt1[2], GeomRect[2], GeomRect[4])[2])

PassesThroughInterior == RatLess(ClipEntry, ClipExit)

InClosedBox(p) ==
    GeomRect[1] <= p[1] /\ p[1] <= GeomRect[3] /\ GeomRect[2] <= p[2] /\ p[2] <= GeomRect[4]

\* r is an integer point nearest to pt1 + t*(pt2 - pt1)
IsRoundingOf(r, t) ==
    /\ 2 * AbsInt(r[1] * t[2] - (pt1[1] * t[2] + t[1] * (pt2[1] - pt1[1]))) <= t[2]
    /\ 2 * AbsInt(r[2] * t[2] - (pt1[2] * t[2] + t[1] * (pt2[2] - pt1[2]))) <= t[2]

OnSideLine ==
    \/ isSegmentHorizontal(pt1, pt2) /\ pt1[2] \in {GeomRect[2], GeomRect[4]}
    \/ isSegmentVertical(pt1, pt2) /\ pt1[1] \in {GeomRect[1], GeomRect[3]}

PositiveBox == GeomRect[1] < GeomRect[3] /\ GeomRect[2] < GeomRect[4]

\* C4: segmentXbox returns the same list when the two segment endpoints are
\* exchanged and when the two box corners are exchanged.
C4_Symmetric ==
    gpc = 3 =>
        /\ segmentXboxResult(xbox) = segmentXboxResult(xboxEnds)
        /\ segmentXboxResult(xbox) = segmentXboxResult(xboxCorners)

\* C5: for a box of positive width and height, a horizontal or vertical segment
\* lying on the line of one of the four sides yields the empty list.
C5_CollinearEmpty ==
    (gpc >= 1 /\ PositiveBox /\ OnSideLine) => segmentXboxResult(xbox) = <<>>

\* C6: a segment with both endpoints outside the closed box that passes through
\* the interior yields exactly two points, the rounded entry and exit points,
\* in ascending (x, then y) order.
C6_TwoPoints ==
    (gpc >= 1 /\ ~InClosedBox(pt1) /\ ~InClosedBox(pt2) /\ PassesThroughInterior) =>
        LET r == segmentXboxResult(xbox)
        IN  /\ Len(r) = 2
            /\ PointLess(r[1], r[2])
            /\ \/ IsRoundingOf(r[1], ClipEntry) /\ IsRoundingOf(r[2], ClipExit)
               \/ IsRoundingOf(r[2], ClipEntry) /\ IsRoundingOf(r[1], ClipExit)

\* C7: the assertion numPts <= 2 of segmentXbox never fails, and the list
\* returned has at most two points, all distinct.
C7_AtMostTwo ==
    \A r \in {xbox, xboxEnds, xboxCorners} :
        /\ r.numPts <= 2
        /\ Len(segmentXboxResult(r)) <= 2
        /\ Len(segmentXboxResult(r)) = 2 => segmentXboxResult(r)[1] # segmentXboxResult(r)[2]

\* A call where a corner was hit on two sides and de-duplication left two points.
C7_Witness ==
    /\ gpc >= 1
    /\ Len(xbox.rawL) + Len(xbox.rawCorners) > 2
    /\ xbox.numPts = 2
    /\ Len(segmentXboxResult(xbox)) = 2

(* ------------------------------------------------------------------ *)
(* Calls of the rectangle functions on two 4-tuples and a point.       *)
(* ------------------------------------------------------------------ *)

RectMax == 2

Rects == {<<a, b, c, d>> : a \in 0..RectMax, b \in 0..RectMax, c \in 0..RectMax, d \in 0..RectMax}

RectInit ==
    /\ rectA \in Rects /\ rectB \in Rects
    /\ rpoint = <<0, 0>> /\ rres = <<>> /\ rpc = 0
    /\ GeomIdle /\ GerberIdle /\ ExcellonIdle /\ JobIdle

\* intersectExtents both ways round, and the containment tests on its result
CallIntersectExtents ==
    /\ rpc = 0
    /\ LET ab == intersectExtents(rectA, rectB)
       IN  rres' = [ab |-> ab,
                    ba |-> intersectExtents(rectB, rectA),
                    inA |-> IF ab = None THEN FALSE ELSE isRect1InRect2(ab, rectA),
                    inB |-> IF ab = None THEN FALSE ELSE isRect1InRect2(ab, rectB),
                    selfA |-> isRect1InRect2(rectA, rectA),
                    strict |-> FALSE]
    /\ rpc' = 1
    /\ UNCHANGED <<rectA, rectB, rpoint, geomVars, gerberVars, excellonVars, jobVars>>

\* isPointStrictlyInRectangle on the canonical form of rectA
CallIsPointStrictlyInRectangle ==
    /\ rpc = 1
    /\ \E p \in {<<x, y>> : x \in 0..RectMax, y \in 0..RectMax} :
        /\ rpoint' = p
        /\ rres' = [rres EXCEPT !.strict = isPointStrictlyInRectangle(p, canonicalizeExtents(rectA).rect)]
    /\ rpc' = 2
    /\ UNCHANGED <<rectA, rectB, geomVars, gerberVars, excellonVars, jobVars>>

RectNext == CallIntersectExtents \/ CallIsPointStrictlyInRectangle

SpecRect == RectInit /\ [][RectNext]_vars

CanonA == canonicalizeExtents(rectA).rect

OnBoundary(p, R) ==
    /\ R[1] <= p[1] /\ p[1] <= R[3] /\ R[2] <= p[2] /\ p[2] <= R[4]
    /\ (p[1] = R[1] \/ p[1] = R[3] \/ p[2] = R[2] \/ p[2] = R[4])

\* C8: for a canonical rectangle R and a point P on its boundary (sides and
\* corners), isPointStrictlyInRectangle(P, R) is false.
C8_BoundaryNotStrict ==
    (rpc = 2 /\ OnBoundary(rpoint, CanonA)) => rres.strict = FALSE

\* A point in the middle of the left side of a rectangle of positive area.
C8_Witness ==
    /\ rpc = 2
    /\ CanonA[1] < CanonA[3] /\ CanonA[2] + 1 < CanonA[4]
    /\ rpoint[1] = CanonA[1] /\ CanonA[2] < rpoint[2] /\ rpoint[2] < CanonA[4]
    /\ rres.strict = FALSE

\* C9: intersectExtents(A, B) = intersectExtents(B, A); a result other than
\* None is a canonical rectangle contained in A and in B; isRect1InRect2(A, A).
C9_IntersectCommutes ==
    rpc >= 1 =>
        /\ rres.ab = rres.ba
        /\ rres.ab # None =>
            /\ rres.ab[1] <= rres.ab[3] /\ rres.ab[2] <= rres.ab[4]
            /\ rres.inA /\ rres.inB
        /\ rres.selfA

\* Two different overlapping rectangles, the first given with its corners out of order.
C9_Witness ==
    /\ rpc >= 1
    /\ rres.ab # None
    /\ rectA # rectB /\ rres.ab # CanonA
    /\ rectA[1] > rectA[3]

(* ------------------------------------------------------------------ *)
(* Parsing one Gerber file, statement by statement.                    *)
(* ------------------------------------------------------------------ *)

\* A dimension of n Gerber units as the float parsed from its decimal text in inches
InchDim(n) == FDiv(FFromInt(n), FFromInt(100000))

Circle10 == Aperture("Circle", <<"D", 0, 0>>, InchDim(10), FZero)

Rect40x20 == Aperture("Rectangle", <<"D", 0, 0>>, InchDim(40), InchDim(20))

Oval30x10 == Aperture("Oval", <<"D", 0, 0>>, InchDim(30), InchDim(10))

\* The global table as the scan of the jobs' files leaves it before any layer is parsed
GlobalApertures ==
    <<<<DCode(10), [Circle10 EXCEPT !.code = DCode(10)]>>,
      <<DCode(11), [Rect40x20 EXCEPT !.code = DCode(11)]>>>>

MaxFileLen == 3

ParseTokens ==
    {<<"%AD", DCode(10), Rect40x20>>, <<"%AD", DCode(11), Circle10>>, <<"%AD", DCode(12), Oval30x10>>,
     <<"%AD", DCode(12), None>>,
     DCode(10), DCode(11), DCode(12), <<"D", 10, 1>>, <<"D", 3, 0>>, <<"D", 2, 1>>, <<"D", 1, 1>>,
     <<"G", 36>>, <<"G", 1>>, <<"G", 74>>, <<"G", 54>>, <<"G", 99>>,
     <<"X.Y.D", 3, 4, 1>>, <<"X.Y.D", 5, 6, 2>>, <<"X.D", 7, 3>>, <<"Y.D", 25, 1>>,
     <<"X.Y.I.J.D", 3, 4, 1, 2, 1>>,
     <<"%FS", "L", "A", 6, 4>>, <<"%FS", "T", "A", 5, 5>>, <<"%MO", "MM">>, <<"%MO", "IN">>,
     <<"%LP", "%LPD*%">>, <<"ignored">>, <<"other">>}

ParseInit ==
    /\ Config \in {[measurementunits |-> "inch", excellondecimals |-> 4],
                   [measurementunits |-> "mm", excellondecimals |-> 4]}
    /\ GAT = GlobalApertures
    /\ layer = parseStart(GerberParser, FALSE)
    /\ gfile = <<>> /\ gdone = <<>> /\ lpc = "parse" /\ trimlog = <<>>
    /\ GeomIdle /\ RectIdle /\ ExcellonIdle /\ JobIdle

\* parse() reads the statement tok
ParseStatement(tok) ==
    /\ lpc = "parse" /\ layer.err = ""
    /\ layer' = parseToken(layer, tok, GAT, Config.measurementunits)
    /\ gdone' = Append(gdone, tok)
    /\ gfile' = IF gfile = <<>> THEN gfile ELSE Tail(gfile)
    /\ UNCHANGED <<Config, GAT, lpc, trimlog, geomVars, rectVars, excellonVars, jobVars>>

\* parse() reaches the end of the file
ParseEnd ==
    /\ lpc = "parse" /\ layer.err = "" /\ gfile = <<>>
    /\ lpc' = "parsed"
    /\ UNCHANGED <<Config, GAT, layer, gfile, gdone, trimlog, geomVars, rectVars, excellonVars, jobVars>>

ParseAny == \E tok \in ParseTokens : gfile = <<>> /\ Len(gdone) < MaxFileLen /\ ParseStatement(tok)

ParseNext == ParseAny \/ ParseEnd

SpecParse == ParseInit /\ [][ParseNext]_vars

\* The aperture definitions of local code `code` among the statements of file
DefinitionsOf(code, file) == SelectSeq(file, LAMBDA t : t[1] = "%AD" /\ t[2] = code)

\* The global code of the aperture that the latest of them defines
GlobalCodeOf(code, file) ==
    RevGet(GAT, ApertureHash(DefinitionsOf(code, file)[Len(DefinitionsOf(code, file))][3]))

\* C10: an aperture select Dnn, nn >= 10, with no earlier definition of the same
\* code in the file aborts the parse with the 'no corresponding translation'
\* error and appends no command; with a definition, the command appended is
\* the global code of the aperture defined, not the code read.
C10_SelectTranslated ==
    [][(gdone' # gdone /\ gdone'[Len(gdone')][1] = "D" /\ gdone'[Len(gdone')][2] >= 10) =>
         IF DefinitionsOf(gdone'[Len(gdone')], gdone) = <<>>
         THEN /\ layer'.err = "tool change command with no corresponding translation"
              /\ layer'.commands = layer.commands
         ELSE /\ layer'.err = ""
              /\ layer'.commands = Append(layer.commands, GlobalCodeOf(gdone'[Len(gdone')], gdone))
              /\ layer'.apertures = Append(layer.apertures, GlobalCodeOf(gdone'[Len(gdone')], gdone))]_vars

\* A file that defines D10 as the aperture of global code D11, selects D10 and
\* then selects the undefined D12: D11 is in the stream and the parse is aborted.
C10_Witness ==
    /\ Len(gdone) = 3
    /\ gdone[1] = <<"%AD", DCode(10), Rect40x20>> /\ gdone[2] = DCode(10) /\ gdone[3] = DCode(12)
    /\ layer.commands = <<DCode(11)>>
    /\ layer.err = "tool change command with no corresponding translation"

(* ------------------------------------------------------------------ *)
(* One layer parsed, given extents and trimmed twice.                  *)
(* ------------------------------------------------------------------ *)

\* Every file starts with these two definitions: local D10 is the global
\* rectangle D11 and local D11 the global circle D10.
TrimHeader == <<<<"%AD", DCode(10), Rect40x20>>, <<"%AD", DCode(11), Circle10>>>>

MaxBodyLen == 3

TrimPoints == {<<30, 20>>, <<15, 20>>, <<80, 20>>, <<30, 50>>}

TrimTokens ==
    {DCode(10), DCode(11), <<"X.Y.I.J.D", 30, 50, 5, 5, 1>>}
        \cup {<<"X.Y.D", p[1], p[2], d>> : p \in TrimPoints, d \in {1, 2, 3}}

TrimBoxes == {<<0, 0, 60, 40>>, <<10, 10, 30, 30>>}

TrimInit ==
    /\ Config = [measurementunits |-> "inch", excellondecimals |-> 4]
    /\ GAT = GlobalApertures
    /\ layer = parseStart(GerberParser, FALSE)
    /\ gfile = TrimHeader /\ gdone = <<>> /\ lpc = "parse" /\ trimlog = <<>>
    /\ GeomIdle /\ RectIdle /\ ExcellonIdle /\ JobIdle

ParseHeader == gfile # <<>> /\ ParseStatement(Head(gfile))

ParseBody ==
    \E tok \in TrimTokens :
        gfile = <<>> /\ Len(gdone) < Len(TrimHeader) + MaxBodyLen /\ ParseStatement(tok)

\* GerberParser.updateExtents
UpdateExtents ==
    /\ lpc = "parsed"
    /\ \E box \in TrimBoxes : layer' = updateExtents(layer, box)
    /\ lpc' = "extents"
    /\ UNCHANGED <<Config, GAT, gfile, gdone, trimlog, geomVars, rectVars, excellonVars, jobVars>>

\* The state after a call of trim() that returned r
TrimReturn(r) ==
    /\ layer' = r.P
    /\ GAT' = r.GAT
    /\ trimlog' = Append(trimlog, [before |-> layer.commands, after |-> r.P.commands, err |-> r.err])

\* GerberParser.trim, called at most twice
Trim ==
    /\ lpc = "extents" /\ Len(trimlog) < 2
    /\ trimlog # <<>> => trimlog[1].err = ""
    /\ TrimReturn(trim(layer, GAT, Config.measurementunits))
    /\ UNCHANGED <<Config, gfile, gdone, lpc, geomVars, rectVars, excellonVars, jobVars>>

TrimNext == ParseHeader \/ ParseBody \/ ParseEnd \/ UpdateExtents \/ Trim

SpecTrim == TrimInit /\ [][TrimNext]_vars

\* C1: a second trim() with the same extents leaves the command list exactly
\* as the first call produced it.
C1_TrimIdempotent ==
    (Len(trimlog) = 2 /\ trimlog[2].err = "") => trimlog[2].after = trimlog[1].after

(* ------------------------------------------------------------------ *)
(* One drill file parsed, given extents and trimmed twice.             *)
(* ------------------------------------------------------------------ *)

\* The diameter float('0.0nn') of a tool of n thousandths
ToolDiam(n) == FDiv(FFromInt(n), FFromInt(1000))

\* config.DefaultToolList
DefaultToolList == <<<<<<"T", 2>>, ToolDiam(35)>>>>

\* Every drill file starts with the definition T01C0.030
DrillHeader == <<<<"TC", 1, 1, ToolDiam(30)>>>>

MaxDrillLen == 3

DrillLines ==
    {<<"FMAT", 1>>, <<"METRIC">>, <<"INCH", "L">>,
     <<"TC", 1, 0, ToolDiam(40)>>, <<"T", 2, 1>>, <<"T", 3, 0>>,
     <<"X", 100, 3>>, <<"Y", 250, 4>>, <<"Y", 9000, 4>>, <<"X.Y">>}

DrillBoxes == {<<0, 0, 6000, 4000>>, <<0, 0, 10, 25>>}

\* The number of decimals parse() works with
xdecimals(X) == IF X.decimals > 0 THEN X.decimals ELSE Config.excellondecimals

DrillInit ==
    /\ \/ Config = [measurementunits |-> "inch", excellondecimals |-> 4] /\ drills = ExcellonParser(0)
       \/ Config = [measurementunits |-> "mm", excellondecimals |-> 3] /\ drills = ExcellonParser(4)
    /\ xfile = DrillHeader /\ xdone = <<>> /\ xpc = "parse" /\ xtrimlog = <<>>
    /\ GAT = <<>> /\ layer = GerberParser
    /\ gfile = <<>> /\ gdone = <<>> /\ lpc = "idle" /\ trimlog = <<>>
    /\ GeomIdle /\ RectIdle /\ JobIdle

\* parse() reads one line
XParseLine(line) ==
    /\ xpc = "parse" /\ drills.err = ""
    /\ drills' = xparseLine(drills, line, xdecimals(drills), Config.measurementunits, DefaultToolList)
    /\ xdone' = Append(xdone, line)
    /\ xfile' = IF xfile = <<>> THEN xfile ELSE Tail(xfile)
    /\ UNCHANGED <<xpc, xtrimlog, geomVars, rectVars, gerberVars, jobVars>>

XParseHeader == xfile # <<>> /\ XParseLine(Head(xfile))

XParseBody ==
    \E line \in DrillLines :
        xfile = <<>> /\ Len(xdone) < Len(DrillHeader) + MaxDrillLen /\ XParseLine(line)

\* parse() reaches the end of the file
XParseEnd ==
    /\ xpc = "parse" /\ drills.err = "" /\ xfile = <<>>
    /\ xpc' = "parsed"
    /\ UNCHANGED <<drills, xfile, xdone, xtrimlog, geomVars, rectVars, gerberVars, jobVars>>

\* ExcellonParser.updateExtents
XUpdateExtents ==
    /\ xpc = "parsed"
    /\ \E box \in DrillBoxes : drills' = updateExtents(drills, box)
    /\ xpc' = "extents"
    /\ UNCHANGED <<xfile, xdone, xtrimlog, geomVars, rectVars, gerberVars, jobVars>>

\* ExcellonParser.trim, called at most twice
XTrim ==
    /\ xpc = "extents" /\ Len(xtrimlog) < 2
    /\ xtrimlog # <<>> => xtrimlog[1].err = ""
    /\ drills' = xtrim(drills, Config.measurementunits)
    /\ xtrimlog' = Append(xtrimlog, [before |-> drills.xcommands, xcommands |-> drills'.xcommands,
                                     xdiam |-> drills'.xdiam, err |-> drills'.err])
    /\ UNCHANGED <<xfile, xdone, xpc, geomVars, rectVars, gerberVars, jobVars>>

DrillNext == XParseHeader \/ XParseBody \/ XParseEnd \/ XUpdateExtents \/ XTrim

SpecDrill == DrillInit /\ [][DrillNext]_vars

\* C2: a second ExcellonParser.trim() with the same extents raises no error and
\* leaves xcommands and xdiam exactly as the first call left them.
C2_XTrimIdempotent ==
    Len(xtrimlog) = 2 =>
        /\ xtrimlog[2].err = ""
        /\ xtrimlog[2].xcommands = xtrimlog[1].xcommands
        /\ xtrimlog[2].xdiam = xtrimlog[1].xdiam

\* Two trims of a drill set of which the first call dropped one tool with all
\* its plunges and kept another.
C2_Witness ==
    /\ Len(xtrimlog) = 2
    /\ Len(xtrimlog[1].before) = 2
    /\ Len(xtrimlog[1].xcommands) = 1
    /\ Len(xtrimlog[2].xdiam) = 1

(* ------------------------------------------------------------------ *)
(* A job with one layer and its drills, trimmed or not, rotated by 90  *)
(* degrees up to four times.                                           *)
(* ------------------------------------------------------------------ *)

MaxRotations == 4

RotDrillFile == <<<<"TC", 1, 1, ToolDiam(30)>>, <<"X", 100, 3>>, <<"Y", 250, 4>>>>

RotTokens ==
    {DCode(10), DCode(11), <<"G", 74>>, <<"X.Y.I.J.D", 31, 50, 5, -7, 1>>,
     <<"X.Y.D", 15, 20, 3>>, <<"X.Y.D", 80, 21, 1>>, <<"X.Y.D", 30, 50, 2>>}

RotInit ==
    /\ Config = [measurementunits |-> "inch", excellondecimals |-> 4]
    /\ GAT = GlobalApertures
    /\ layer \in {parseStart(GerberParser, TRUE), parseStart(GerberParser, FALSE)}
    /\ gfile = TrimHeader /\ gdone = <<>> /\ lpc = "parse" /\ trimlog = <<>>
    /\ drills = ExcellonParser(0)
    /\ xfile = RotDrillFile /\ xdone = <<>> /\ xpc = "parse" /\ xtrimlog = <<>>
    /\ job = Job("job") /\ job0 = Job("job") /\ nrot = 0 /\ jpc = "load"
    /\ GeomIdle /\ RectIdle

ParseRotBody ==
    \E tok \in RotTokens :
        gfile = <<>> /\ Len(gdone) < Len(TrimHeader) + MaxBodyLen /\ ParseStatement(tok)

\* Job.parseExcellon, once the file is read
JobParseExcellon ==
    /\ jpc = "load" /\ xpc = "parsed" /\ job.drills = None
    /\ job' = [job EXCEPT !.drills = drills]
    /\ UNCHANGED <<job0, nrot, jpc, geomVars, rectVars, gerberVars, excellonVars>>

\* Job.parseGerber, once the file is read
JobParseGerber ==
    /\ jpc = "load" /\ lpc = "parsed" /\ job.gerbers = <<>>
    /\ job' = jobParseGerber(job, "*toplayer", layer)
    /\ UNCHANGED <<job0, nrot, jpc, geomVars, rectVars, gerberVars, excellonVars>>

\* Job.trimGerber
JobTrimGerber ==
    /\ jpc = "load" /\ job.gerbers # <<>> /\ job.drills # None /\ job.err = ""
    /\ job' = jobTrimGerber(job, GAT, Config.measurementunits).J
    /\ GAT' = jobTrimGerber(job, GAT, Config.measurementunits).GAT
    /\ jpc' = "trimmed"
    /\ UNCHANGED <<job0, nrot, Config, layer, gfile, gdone, lpc, trimlog,
                   geomVars, rectVars, excellonVars>>

\* job = rotateJob(job, 90)
RotateJob ==
    /\ jpc \in {"load", "trimmed", "rotated"} /\ job.gerbers # <<>> /\ job.err = ""
    /\ nrot < MaxRotations
    /\ job' = rotateJob(job, GAT).J
    /\ GAT' = rotateJob(job, GAT).GAT
    /\ job0' = IF nrot = 0 THEN job ELSE job0
    /\ nrot' = nrot + 1
    /\ jpc' = "rotated"
    /\ UNCHANGED <<Config, layer, gfile, gdone, lpc, trimlog, geomVars, rectVars, excellonVars>>

RotNext ==
    \/ XParseHeader \/ XParseEnd \/ JobParseExcellon
    \/ ParseHeader \/ ParseRotBody \/ ParseEnd \/ JobParseGerber
    \/ JobTrimGerber \/ RotateJob

SpecRotate == RotInit /\ [][RotNext]_vars

\* C3: four successive rotateJob(job, 90) give a job with the extents of the
\* original and, in every layer, as many commands as the original, with every
\* Draw and CircularDraw equal to the one at the same index of the original.
C3_RotateRoundTrip ==
    (nrot = 4 /\ job.err = "") =>
        /\ extents(job) = extents(job0)
        /\ \A i \in 1..Len(job0.gerbers) :
              /\ Len(job.gerbers[i][2].commands) = Len(job0.gerbers[i][2].commands)
              /\ \A j \in 1..Len(job0.gerbers[i][2].commands) :
                    IsTuple(job0.gerbers[i][2].commands[j]) =>
                        job.gerbers[i][2].commands[j] = job0.gerbers[i][2].commands[j]

(* ------------------------------------------------------------------ *)
(* Parsing one drill file of any lines, for a job with or without a    *)
(* tool list of its own.                                               *)
(* ------------------------------------------------------------------ *)

MaxDrillFileLen == 3

\* The tool list of a job that has one (ExcellonParser.ToolList)
JobToolList == <<<<<<"T", 3>>, ToolDiam(25)>>>>

DrillFileLines ==
    {<<"FMAT", 1>>, <<"FMAT", 2>>, <<"INCH", "L">>, <<"TC", 1, 1, ToolDiam(30)>>,
     <<"T", 1, 0>>, <<"T", 2, 1>>, <<"T", 3, 0>>, <<"T", 4, 1>>,
     <<"X", 250, 4>>, <<"Y", 250, 4>>, <<"XY", 250, 4, 250, 4>>, <<"ignored">>}

DrillFileInit ==
    /\ Config = [measurementunits |-> "inch", excellondecimals |-> 4]
    /\ drills \in {ExcellonParser(0), [ExcellonParser(0) EXCEPT !.ToolList = JobToolList]}
    /\ xfile = <<>> /\ xdone = <<>> /\ xpc = "parse" /\ xtrimlog = <<>>
    /\ GAT = <<>> /\ layer = GerberParser
    /\ gfile = <<>> /\ gdone = <<>> /\ lpc = "idle" /\ trimlog = <<>>
    /\ GeomIdle /\ RectIdle /\ JobIdle

XParseAny ==
    \E line \in DrillFileLines :
        xfile = <<>> /\ Len(xdone) < MaxDrillFileLen /\ XParseLine(line)

DrillFileNext == XParseAny \/ XParseEnd

SpecDrillFile == DrillFileInit /\ [][DrillFileNext]_vars

\* The line that the step reads, <<"">> if it reads none
LineRead == IF xdone' # xdone THEN xdone'[Len(xdone')] ELSE <<"">>

\* No tool selection or tool definition among the lines read so far
NoToolYet == \A i \in 1..Len(xdone) : xdone[i][1] \notin {"T", "TC"}

\* C11: a plunge line (X<digits>Y<digits>, X-only or Y-only) read before any
\* tool selection or tool definition aborts the parse with the 'plunge command
\* without previous tool selection' error, and no plunge is recorded.
C11_PlungeNeedsTool ==
    [][(LineRead[1] \in {"XY", "X", "Y"} /\ NoToolYet) =>
          /\ drills'.err = "plunge command without previous tool selection"
          /\ drills'.xcommands = drills.xcommands]_vars

\* C19: a drill file that declares format 1 (FMAT,1) aborts the parse.
C19_Format1Aborts ==
    [][LineRead = <<"FMAT", 1>> => drills'.err # ""]_vars

\* The diameter that the tool has in the first of the embedded definitions, the
\* job's tool list and the default tool list that holds it; None if none does
ResolvedDiameter(X, tool) ==
    IF DictHas(X.xdiam, tool) THEN DictGet(X.xdiam, tool)
    ELSE IF DictHas(X.ToolList, tool) THEN DictGet(X.ToolList, tool)
    ELSE IF DictHas(DefaultToolList, tool) THEN DictGet(DefaultToolList, tool)
    ELSE None

\* C20: a tool select resolves the diameter from the embedded definition, then
\* the job's tool list, then the default tool list, and fails only if none of
\* the three holds the tool.
C20_ToolFallback ==
    [][LineRead[1] = "T" =>
          IF ResolvedDiameter(drills, <<"T", LineRead[2]>>) = None THEN drills'.err # ""
          ELSE /\ drills'.err = ""
               /\ DictHas(drills'.xdiam, <<"T", LineRead[2]>>)
               /\ DictGet(drills'.xdiam, <<"T", LineRead[2]>>)
                      = ResolvedDiameter(drills, <<"T", LineRead[2]>>)]_vars

(* ------------------------------------------------------------------ *)
(* The command stream that parse() builds (SpecParse).                 *)
(* ------------------------------------------------------------------ *)

\* The exposure d of a draw tuple
Exposure(cmd) == IF cmd[1] = "IJ" THEN cmd[6] ELSE cmd[4]

IsApertureSelect(cmd) == cmd[1] = "D" /\ cmd[2] >= 10

\* C12: in the command stream of parse(), every Draw or CircularDraw with
\* exposure On (1) or Flash (3) comes after some aperture select (D-code >= 10).
C12_DrawAfterSelect ==
    \A j \in 1..Len(layer.commands) :
        (IsTuple(layer.commands[j]) /\ Exposure(layer.commands[j]) \in {1, 3}) =>
            \E i \in 1..(j - 1) : IsApertureSelect(layer.commands[i])

\* The statement that the step reads, <<"">> if it reads none
TokenRead == IF gdone' # gdone THEN gdone'[Len(gdone')] ELSE <<"">>

\* The mode-setting G-codes (G01, G36, G37) among the statements of file
ModeCodes(file) == SelectSeq(file, LAMBDA t : t[1] = "G" /\ t[2] \in {1, 36, 37})

\* The latest of them, G01 if there is none
LastMode(file) == IF ModeCodes(file) = <<>> THEN 1 ELSE ModeCodes(file)[Len(ModeCodes(file))][2]

\* C18: a standalone D01 is never appended to the commands; a standalone D02 is
\* appended if and only if the latest of G01/G36/G37 read so far is G36; a
\* standalone D03 is always appended.
C18_StandaloneDCodes ==
    [][(TokenRead[1] = "D" /\ TokenRead[2] \in {1, 2, 3}) =>
          /\ layer'.err = ""
          /\ layer'.commands =
                IF TokenRead[2] = 3 \/ (TokenRead[2] = 2 /\ LastMode(gdone) = 36)
                THEN Append(layer.commands, <<"D", TokenRead[2], 1>>)
                ELSE layer.commands]_vars

\* G36, then a D02 that is kept, then a D3 kept as D03
C18_Witness ==
    /\ gdone = <<<<"G", 36>>, <<"D", 2, 1>>, <<"D", 3, 0>>>>
    /\ layer.commands = <<<<"G", 36>>, <<"D", 2, 1>>, <<"D", 3, 1>>>>
    /\ layer.err = ""

(* ------------------------------------------------------------------ *)
(* The global aperture table under trim and rotation (SpecRotate).     *)
(* ------------------------------------------------------------------ *)

\* Every entry of table T1 is an entry of T2 at the same place
TableExtends(T1, T2) == Len(T2) >= Len(T1) /\ \A i \in 1..Len(T1) : T2[i] = T1[i]

\* No two entries of T share a code or a structural hash
TableInterned(T) ==
    \A i, j \in 1..Len(T) :
        i # j => (T[i][1] # T[j][1] /\ ApertureHash(T[i][2]) # ApertureHash(T[j][2]))

\* Every local code of every layer of J2 leads in T2 to the rotated aperture of
\* the one it leads to in T1 for J1
RotatedCodes(J1, T1, J2, T2) ==
    \A i \in 1..Len(J1.gerbers) : \A k \in 1..Len(J1.gerbers[i][2].apxlat) :
        /\ DictHas(T2, J2.gerbers[i][2].apxlat[k][2])
        /\ ApertureHash(DictGet(T2, J2.gerbers[i][2].apxlat[k][2]))
              = ApertureHash(rotated(DictGet(T1, J1.gerbers[i][2].apxlat[k][2])))

\* C13: under trim and rotation the global aperture table only grows: no entry
\* is removed or rebound, a code is added only for a structural hash that the
\* table does not hold yet, and an aperture whose hash it holds gets the
\* existing code.
C13_TableOnlyGrows ==
    [][/\ TableExtends(GAT, GAT')
       /\ TableInterned(GAT')
       /\ nrot' # nrot => RotatedCodes(job, GAT, job', GAT')]_vars

\* A trimmed job rotated four times: the trim added one clipped rectangle, the
\* first rotation two rotated rectangles, the later rotations nothing.
C13_Witness ==
    /\ nrot = 4 /\ job.err = "" /\ jpc = "rotated"
    /\ Len(GAT) = Len(GlobalApertures) + 3
    /\ Len(job.gerbers[1][2].apxlat) = 3

(* ------------------------------------------------------------------ *)
(* One layer with the rectangle selected, a short body, extents, trim. *)
(* ------------------------------------------------------------------ *)

\* The two definitions of TrimHeader and the selection of the rectangle
ClipHeader == TrimHeader \o <<DCode(10)>>

MaxClipLen == 2

ClipPoints == {<<30, 20>>, <<15, 20>>, <<45, 20>>, <<80, 20>>, <<30, 50>>}

ClipTokens ==
    {DCode(10), DCode(11), <<"X.Y.I.J.D", 30, 50, 5, 5, 1>>, <<"G", 1>>, <<"%LP", "%LPD*%">>,
     <<"X.Y.D", 80, 20, 2>>, <<"X.Y.D", 30, 20, 1>>}
        \cup {<<"X.Y.D", p[1], p[2], 3>> : p \in ClipPoints}

ClipBoxes == {<<0, 0, 60, 40>>, <<10, 10, 30, 30>>}

ClipInit ==
    /\ Config = [measurementunits |-> "inch", excellondecimals |-> 4]
    /\ GAT = GlobalApertures
    /\ layer = parseStart(GerberParser, FALSE)
    /\ gfile = ClipHeader /\ gdone = <<>> /\ lpc = "parse" /\ trimlog = <<>>
    /\ GeomIdle /\ RectIdle /\ ExcellonIdle /\ JobIdle

ClipBody ==
    \E tok \in ClipTokens :
        gfile = <<>> /\ Len(gdone) < Len(ClipHeader) + MaxClipLen /\ ParseStatement(tok)

\* GerberParser.updateExtents
ClipExtents ==
    /\ lpc = "parsed"
    /\ \E box \in ClipBoxes : layer' = updateExtents(layer, box)
    /\ lpc' = "extents"
    /\ UNCHANGED <<Config, GAT, gfile, gdone, trimlog, geomVars, rectVars, excellonVars, jobVars>>

ClipNext == ParseHeader \/ ClipBody \/ ParseEnd \/ ClipExtents \/ Trim

SpecClip == ClipInit /\ [][ClipNext]_vars

\* The loop of trim() when it reaches the last command of the layer
ClipPrefix ==
    trimLoop(trimStart(layer, GAT), SubSeq(layer.commands, 1, Len(layer.commands) - 1),
             layer, Config.measurementunits)

ClipLast == layer.commands[Len(layer.commands)]

\* What the call of trim() of this step put out for the last command
ClipEmitted == SubSeq(layer'.commands, Len(ClipPrefix.newcmds) + 1, Len(layer'.commands))

\* This step is a call of trim() that reaches the last command
TrimReachesLast ==
    /\ lpc = "extents" /\ Len(trimlog') = Len(trimlog) + 1
    /\ layer.commands # <<>> /\ ClipPrefix.err = ""

\* This step is a call of trim() whose last command is a flash through a rectangle
TrimsRectFlash ==
    /\ TrimReachesLast
    /\ ClipLast[1] \in {"XY", "XYf"} /\ ClipLast[4] = 3
    /\ ClipPrefix.lastAperture # None /\ isRectangle(ClipPrefix.lastAperture)

\* The footprint of the flash cmd through aperture A and the borders of P, in one unit
Footprint(A, cmd) ==
    rectangleAsRect(A, DrawPoint(cmd).x, DrawPoint(cmd).y, DrawPoint(cmd).k, Config.measurementunits)

Borders(P, cmd) == scaleRect(<<P.minx, P.miny, P.maxx, P.maxy>>, DrawPoint(cmd).k)

FootprintInside(fp, bx) == fp[1] >= bx[1] /\ fp[2] >= bx[2] /\ fp[3] <= bx[3] /\ fp[4] <= bx[4]

OverlapWidth(fp, bx) == Min2(fp[3], bx[3]) - Max2(fp[1], bx[1])

OverlapHeight(fp, bx) == Min2(fp[4], bx[4]) - Max2(fp[2], bx[2])

\* The smaller dimension of what fp and bx have in common is at least 10 units
OverlapWide(fp, bx, k) == OverlapWidth(fp, bx) >= 10 * 2^k /\ OverlapHeight(fp, bx) >= 10 * 2^k

FlashOutcome(cmd, fp, bx, k, out, previous, table) ==
    IF FootprintInside(fp, bx) THEN out = <<cmd>>
    ELSE IF ~OverlapWide(fp, bx, k) THEN out = <<>>
    ELSE /\ Len(out) = 3
         /\ IsApertureSelect(out[1]) /\ DictHas(table, out[1]) /\ isRectangle(DictGet(table, out[1]))
         /\ out[2][1] \in {"XY", "XYf"} /\ out[2][4] = 3
         /\ out[3] = previous

\* C14: trim() keeps a flash through a rectangular aperture unchanged when its
\* footprint lies within the borders; otherwise it drops the flash when the
\* footprint and the borders have nothing in common or what they have in common
\* is less than 10 units wide or high, and else puts out exactly three commands:
\* the selection of a rectangular aperture, a flash, the previous selection.
C14_RectFlashOutcome ==
    [][TrimsRectFlash =>
          /\ trimlog'[Len(trimlog')].err = ""
          /\ SubSeq(layer'.commands, 1, Len(ClipPrefix.newcmds)) = ClipPrefix.newcmds
          /\ FlashOutcome(ClipLast, Footprint(ClipPrefix.lastAperture, ClipLast),
                          Borders(layer, ClipLast), DrawPoint(ClipLast).k, ClipEmitted,
                          ClipPrefix.lastAperture.code, GAT')]_vars

\* X45Y20D03 with borders (10,10)-(30,30): the footprint (25,10)-(65,30) has 5
\* units of width in common with the borders and the flash is gone
C14_Witness ==
    /\ Len(trimlog) = 1 /\ trimlog[1].err = ""
    /\ trimlog[1].before = <<DCode(11), <<"XY", 45, 20, 3>>>>
    /\ trimlog[1].after = <<DCode(11)>>
    /\ <<layer.minx, layer.miny, layer.maxx, layer.maxy>> = <<10, 10, 30, 30>>

\* What the footprint fp and the borders bx have in common
Overlap(fp, bx) ==
    <<Max2(fp[1], bx[1]), Max2(fp[2], bx[2]), Min2(fp[3], bx[3]), Min2(fp[4], bx[4])>>

\* This step is a call of trim() whose last command is a flash at integer
\* co-ordinates through a rectangle that straddles the borders
TrimsStraddlingFlash ==
    /\ TrimsRectFlash /\ ClipLast[1] = "XY"
    /\ ~FootprintInside(Footprint(ClipPrefix.lastAperture, ClipLast), Borders(layer, ClipLast))
    /\ OverlapWide(Footprint(ClipPrefix.lastAperture, ClipLast), Borders(layer, ClipLast), 0)

\* The flash `flash` through aperture A covers exactly the rectangle rect
Covers(A, flash, rect) ==
    /\ flash[1] = "XY" /\ flash[4] = 3
    /\ in2gerb(A.dimx, Config.measurementunits) = rect[3] - rect[1]
    /\ in2gerb(A.dimy, Config.measurementunits) = rect[4] - rect[2]
    /\ Footprint(A, flash) = rect

\* C15: the flash that trim() puts out for a rectangular flash straddling the
\* borders is at integer co-ordinates, through an aperture as wide and as high
\* as what footprint and borders have in common, and covers exactly that.
C15_ClippedFlashCovers ==
    [][TrimsStraddlingFlash =>
          /\ Len(ClipEmitted) = 3 /\ DictHas(GAT', ClipEmitted[1])
          /\ Covers(DictGet(GAT', ClipEmitted[1]), ClipEmitted[2],
                    Overlap(Footprint(ClipPrefix.lastAperture, ClipLast), Borders(layer, ClipLast)))]_vars

\* A command that is no Draw: a CircularDraw or a string
IsPassed(cmd) == cmd[1] \notin {"XY", "XYf"}

RECURSIVE PassedThrough(_, _)

\* The commands out are the commands in, with every Draw replaced by up to three
\* Draws, or a flash by a selection, a Draw and a selection, and all else as it was
PassedThrough(in, out) ==
    IF in = <<>> THEN out = <<>>
    ELSE IF IsPassed(Head(in))
    THEN out # <<>> /\ Head(out) = Head(in) /\ PassedThrough(Tail(in), Tail(out))
    ELSE \/ \E j \in 0..Min2(3, Len(out)) :
               /\ \A i \in 1..j : ~IsPassed(out[i])
               /\ PassedThrough(Tail(in), SubSeq(out, j + 1, Len(out)))
         \/ /\ Head(in)[4] = 3 /\ Len(out) >= 3
            /\ IsApertureSelect(out[1]) /\ ~IsPassed(out[2]) /\ IsApertureSelect(out[3])
            /\ PassedThrough(Tail(in), SubSeq(out, 4, Len(out)))

\* C17: trim() passes every CircularDraw and every string command (aperture
\* selection, G-code, %...% directive) through as it is and in order; the only
\* such commands it adds are the two selections around a clipped rectangular flash.
C17_PassedThrough ==
    [][(lpc = "extents" /\ Len(trimlog') = Len(trimlog) + 1)
          => PassedThrough(layer.commands, layer'.commands)]_vars

\* A clipped flash followed by a circular draw
C17_Witness ==
    /\ Len(trimlog) = 1 /\ trimlog[1].err = ""
    /\ trimlog[1].before = <<DCode(11), <<"XY", 30, 20, 3>>, <<"IJ", 30, 50, 5, 5, 1, 1>>>>
    /\ trimlog[1].after = <<DCode(11), DCode(12), <<"XY", 10, 10, 3>>, DCode(11), <<"IJ", 30, 50, 5, 5, 1, 1>>>>

(* ------------------------------------------------------------------ *)
(* One layer with moves and draws, extents, trim.                      *)
(* ------------------------------------------------------------------ *)

DrawPoints == {<<30, 20>>, <<15, 20>>, <<45, 20>>, <<80, 20>>, <<30, 50>>}

DrawTokens == {<<"X.Y.D", p[1], p[2], d>> : p \in DrawPoints, d \in {1, 2}}

DrawBody ==
    \E tok \in DrawTokens :
        gfile = <<>> /\ Len(gdone) < Len(ClipHeader) + MaxClipLen /\ ParseStatement(tok)

DrawNext == ParseHeader \/ DrawBody \/ ParseEnd \/ ClipExtents \/ Trim

SpecDraw == ClipInit /\ [][DrawNext]_vars

\* A fraction <<n, d>> with d > 0
FracLess(a, b) == a[1] * b[2] < b[1] * a[2]

FracMax(a, b) == IF FracLess(a, b) THEN b ELSE a

FracMin(a, b) == IF FracLess(a, b) THEN a ELSE b

\* Where the ordinate going from p0 to q0 enters and leaves the interval lo..hi,
\* as fractions of the way; an ordinate that stays outside enters after it leaves
AxisEnter(p0, q0, lo, hi) ==
    IF q0 > p0 THEN <<lo - p0, q0 - p0>>
    ELSE IF q0 < p0 THEN <<p0 - hi, p0 - q0>>
    ELSE IF lo <= p0 /\ p0 <= hi THEN <<0, 1>> ELSE <<2, 1>>

AxisLeave(p0, q0, lo, hi) ==
    IF q0 > p0 THEN <<hi - p0, q0 - p0>>
    ELSE IF q0 < p0 THEN <<p0 - lo, p0 - q0>>
    ELSE IF lo <= p0 /\ p0 <= hi THEN <<1, 1>> ELSE <<-1, 1>>

\* The part of the segment from p to q within the closed box bx
SegEnter(p, q, bx) ==
    FracMax(<<0, 1>>, FracMax(AxisEnter(p[1], q[1], bx[1], bx[3]), AxisEnter(p[2], q[2], bx[2], bx[4])))

SegLeave(p, q, bx) ==
    FracMin(<<1, 1>>, FracMin(AxisLeave(p[1], q[1], bx[1], bx[3]), AxisLeave(p[2], q[2], bx[2], bx[4])))

\* The integer c is the ordinate at fraction t of the way from p0 to q0, rounded
RoundedAt(c, p0, q0, t) == 2 * AbsInt(c * t[2] - (p0 * t[2] + t[1] * (q0 - p0))) <= t[2]

\* The command cmd goes with exposure d to the point at fraction t from p to q
GoesTo(cmd, d, p, q, t) ==
    /\ cmd[1] = "XY" /\ cmd[4] = d
    /\ RoundedAt(cmd[2], p[1], q[1], t) /\ RoundedAt(cmd[3], p[2], q[2], t)

PointInside(p, bx) == bx[1] <= p[1] /\ p[1] <= bx[3] /\ bx[2] <= p[2] /\ p[2] <= bx[4]

\* The four cases of an exposure-on draw cmd from p to q with borders bx
DrawOutcome(cmd, p, q, bx, out) ==
    IF PointInside(p, bx) /\ PointInside(q, bx) THEN out = <<cmd>>
    ELSE IF PointInside(p, bx)
    THEN Len(out) = 2 /\ GoesTo(out[1], 1, p, q, SegLeave(p, q, bx)) /\ out[2] = <<"XY", q[1], q[2], 2>>
    ELSE IF PointInside(q, bx)
    THEN Len(out) = 2 /\ GoesTo(out[1], 2, p, q, SegEnter(p, q, bx)) /\ out[2] = cmd
    ELSE IF FracLess(SegEnter(p, q, bx), SegLeave(p, q, bx))
    THEN /\ Len(out) = 3 /\ out[3] = <<"XY", q[1], q[2], 2>>
         /\ \/ GoesTo(out[1], 2, p, q, SegEnter(p, q, bx)) /\ GoesTo(out[2], 1, p, q, SegLeave(p, q, bx))
            \/ GoesTo(out[1], 2, p, q, SegLeave(p, q, bx)) /\ GoesTo(out[2], 1, p, q, SegEnter(p, q, bx))
    ELSE FracLess(SegLeave(p, q, bx), SegEnter(p, q, bx)) => out = <<>>

\* This step is a call of trim() whose last command is an exposure-on draw
\* between points at integer co-ordinates
TrimsDraw ==
    /\ TrimReachesLast
    /\ ClipLast[1] = "XY" /\ ClipLast[4] = 1 /\ ClipPrefix.last.k = 0

\* C16: trim() handles an exposure-on draw from the previous point to (x, y) by
\* one of four cases: both points within the borders, the command is kept; both
\* outside and the segment crossing the borders twice, a move to one crossing, a
\* draw to the other and a move to (x, y); both outside without crossing,
\* nothing; one within and one outside, one draw and one move, clipped at the
\* crossing, the part drawn being the one next to the point within.
C16_DrawOutcome ==
    [][TrimsDraw =>
          /\ trimlog'[Len(trimlog')].err = ""
          /\ SubSeq(layer'.commands, 1, Len(ClipPrefix.newcmds)) = ClipPrefix.newcmds
          /\ DrawOutcome(ClipLast, <<ClipPrefix.last.x, ClipPrefix.last.y>>, <<ClipLast[2], ClipLast[3]>>,
                         <<layer.minx, layer.miny, layer.maxx, layer.maxy>>, ClipEmitted)]_vars

(* ------------------------------------------------------------------ *)
(* What ExcellonParser.trim() leaves (SpecDrill).                      *)
(* ------------------------------------------------------------------ *)

\* The plunge p, a position in units of 1/10000 inch or 1/100 mm, taken to the
\* units of the borders of X, is within them
PlungeInside(p, X) ==
    IF Config.measurementunits = "inch"
    THEN /\ X.minx <= 10 * p[1] /\ 10 * p[1] <= X.maxx
         /\ X.miny <= 10 * p[2] /\ 10 * p[2] <= X.maxy
    ELSE /\ 10 * X.minx <= p[1] /\ p[1] <= 10 * X.maxx
         /\ 10 * X.miny <= p[2] /\ p[2] <= 10 * X.maxy

PlungesInside(L, X) == SelectSeq(L, LAMBDA p : PlungeInside(p, X))

\* The plunge map `before` with the plunges outside the borders of X and then
\* the tools without plunges taken out
PlungesKept(before, X) ==
    SelectSeq([i \in 1..Len(before) |-> <<before[i][1], PlungesInside(before[i][2], X)>>],
              LAMBDA e : e[2] # <<>>)

\* The call of trim() logged as e did what is due with the borders of X
XTrimmed(e, X) ==
    /\ e.err = ""
    /\ e.xcommands = PlungesKept(e.before, X)
    /\ \A i \in 1..Len(e.before) :
           PlungesInside(e.before[i][2], X) = <<>> => ~DictHas(e.xdiam, e.before[i][1])

\* C21: ExcellonParser.trim() never fails; each tool it leaves in xcommands has
\* exactly its plunges within the closed borders, in their order, and at least
\* one; a tool that loses all its plunges is in neither xcommands nor xdiam.
C21_XTrimKeepsInside ==
    \A n \in 1..Len(xtrimlog) : XTrimmed(xtrimlog[n], drills)

\* One call of trim() that took one of two tools out and left the other
C21_Witness ==
    /\ Len(xtrimlog) = 1 /\ xtrimlog[1].err = ""
    /\ Len(xtrimlog[1].before) = 2
    /\ Len(xtrimlog[1].xcommands) = 1 /\ Len(drills.xdiam) = 1

(* ------------------------------------------------------------------ *)
(* A job loaded: its drill file, its outline layer and one more layer, *)
(* in any order.                                                       *)
(* ------------------------------------------------------------------ *)

MaxLoadLen == 2

LoadTokens == {DCode(10), <<"X.Y.D", 15, 20, 3>>, <<"X.Y.D", 80, 21, 1>>, <<"X.Y.D", 30, 50, 2>>}

LoadBody ==
    \E tok \in LoadTokens :
        gfile = <<>> /\ Len(gdone) < Len(TrimHeader) + MaxLoadLen /\ ParseStatement(tok)

\* The layer parsed with updateExtents set is the board outline
LayerName(P) == IF P.update_extents THEN "boardoutline" ELSE "*toplayer"

\* Job.parseGerber, once the file is read; the file of the other layer is next
JobParseLayer ==
    /\ jpc = "load" /\ lpc = "parsed" /\ job.err = "" /\ Len(job.gerbers) < 2
    /\ job' = jobParseGerber(job, LayerName(layer), layer)
    /\ IF job.gerbers = <<>>
       THEN /\ layer' = parseStart(GerberParser, ~layer.update_extents)
            /\ gfile' = TrimHeader /\ gdone' = <<>> /\ lpc' = "parse"
       ELSE /\ lpc' = "done"
            /\ UNCHANGED <<layer, gfile, gdone>>
    /\ UNCHANGED <<job0, nrot, jpc, Config, GAT, trimlog, geomVars, rectVars, excellonVars>>

LoadNext ==
    \/ XParseHeader \/ XParseEnd \/ JobParseExcellon
    \/ ParseHeader \/ LoadBody \/ ParseEnd \/ JobParseLayer

SpecLoad == RotInit /\ [][LoadNext]_vars

AllParsed == Len(job.gerbers) = 2 /\ job.drills # None

\* C22: in whatever order the drill file, the outline layer and the other layer
\* of a job are parsed, no step fails, and once all are parsed the job, each
\* layer and the drills hold the extents of the outline layer.
C22_SameExtents ==
    /\ job.err = ""
    /\ AllParsed =>
          /\ extents(job) = extents(DictGet(job.gerbers, "boardoutline"))
          /\ extents(job.drills) = extents(DictGet(job.gerbers, "boardoutline"))
          /\ \A i \in 1..Len(job.gerbers) :
                 extents(job.gerbers[i][2]) = extents(DictGet(job.gerbers, "boardoutline"))

(* ------------------------------------------------------------------ *)
(* The move to the origin before a first shorthand command (SpecParse).*)
(* ------------------------------------------------------------------ *)

\* The statements with co-ordinates, and those among them with one ordinate only
DrawStatements == {"X.Y.D", "X.D", "Y.D", "X.Y.I.J.D", "X.I.J.D", "Y.I.J.D"}

ShorthandStatements == {"X.D", "Y.D", "X.I.J.D", "Y.I.J.D"}

\* The Draw and CircularDraw commands of cmds
DrawsOf(cmds) == SelectSeq(cmds, IsTuple)

\* cmds2 is cmds1 and then more
ExtendsBy(cmds1, cmds2, more) == cmds2 = cmds1 \o more

\* What parse() appends for the statement tok with the commands cmds1 so far
DrawAppended(tok, cmds1, cmds2) ==
    IF tok[1] \in ShorthandStatements /\ DrawsOf(cmds1) = <<>>
    THEN /\ Len(cmds2) = Len(cmds1) + 2
         /\ ExtendsBy(cmds1, cmds2, <<<<"XY", 0, 0, 2>>, cmds2[Len(cmds2)]>>)
         /\ IsTuple(cmds2[Len(cmds2)])
    ELSE /\ Len(cmds2) = Len(cmds1) + 1
         /\ ExtendsBy(cmds1, cmds2, <<cmds2[Len(cmds2)]>>)
         /\ IsTuple(cmds2[Len(cmds2)])

\* C23: parse() puts the move (0, 0, 2) into the commands exactly when the
\* first statement with co-ordinates has one ordinate only, directly before the
\* command of that statement; once a Draw or CircularDraw is in the commands
\* every statement with co-ordinates appends its one command and nothing else,
\* and no other statement appends a Draw.
C23_OriginMoveOnce ==
    [][(TokenRead # <<"">> /\ layer'.err = "") =>
          IF TokenRead[1] \in DrawStatements
          THEN DrawAppended(TokenRead, layer.commands, layer'.commands)
          ELSE DrawsOf(layer'.commands) = DrawsOf(layer.commands)]_vars

\* G36, a first flash with X alone, a draw with Y alone: one move to the origin
C23_Witness ==
    /\ Len(gdone) = 3 /\ layer.err = ""
    /\ gdone[2][1] = "X.D" /\ gdone[3][1] = "Y.D"
    /\ Len(layer.commands) = 4
    /\ layer.commands[2] = <<"XY", 0, 0, 2>>
    /\ layer.commands[3][1] = "XY" /\ layer.commands[4][1] = "XY"

(* ------------------------------------------------------------------ *)
(* A job loaded and its co-ordinates forced positive by merge.         *)
(* ------------------------------------------------------------------ *)

FixTokens ==
    {DCode(10), <<"X.Y.D", -15, 20, 2>>, <<"X.Y.D", 30, -50, 1>>, <<"X.Y.D", 30, 50, 1>>,
     <<"X.Y.I.J.D", 31, 50, 5, -7, 1>>}

FixBody ==
    \E tok \in FixTokens :
        gfile = <<>> /\ Len(gdone) < Len(TrimHeader) + MaxLoadLen /\ ParseStatement(tok)

\* merge: the loop that forces the co-ordinates of a job positive
MergeFixCoordinates ==
    /\ jpc = "load" /\ job.gerbers # <<>> /\ job.drills # None /\ job.err = ""
    /\ mergeShift(job.minx) > 0 \/ mergeShift(job.miny) > 0
    /\ job' = fixcoordinates(job, mergeShift(job.minx), mergeShift(job.miny))
    /\ job0' = job
    /\ jpc' = "fixed"
    /\ UNCHANGED <<nrot, geomVars, rectVars, gerberVars, excellonVars>>

FixNext ==
    \/ XParseHeader \/ XParseEnd \/ JobParseExcellon
    \/ ParseHeader \/ FixBody \/ ParseEnd \/ JobParseGerber
    \/ MergeFixCoordinates

SpecFix == RotInit /\ [][FixNext]_vars

\* The command after is the command before with its point moved by (dx, dy)
ShiftedCommand(before, after, dx, dy) ==
    IF IsTuple(before)
    THEN after = [before EXCEPT ![2] = @ + dx, ![3] = @ + dy]
    ELSE after = before

ShiftedLayer(before, after, dx, dy) ==
    /\ Len(after.commands) = Len(before.commands)
    /\ \A i \in 1..Len(before.commands) :
           ShiftedCommand(before.commands[i], after.commands[i], dx, dy)

\* The plunges after are the plunges before moved by (dx / 10, dy / 10), integers
ShiftedPlunges(before, after, dx, dy) ==
    /\ Len(after) = Len(before)
    /\ \A i \in 1..Len(before) :
           /\ 10 * after[i][1] = 10 * before[i][1] + dx
           /\ 10 * after[i][2] = 10 * before[i][2] + dy

ShiftedDrills(before, after, dx, dy) ==
    /\ Len(after.xcommands) = Len(before.xcommands)
    /\ \A i \in 1..Len(before.xcommands) :
           /\ after.xcommands[i][1] = before.xcommands[i][1]
           /\ ShiftedPlunges(before.xcommands[i][2], after.xcommands[i][2], dx, dy)

ShiftedJob(before, after, dx, dy) ==
    /\ after.err = ""
    /\ extents(after) = <<before.minx + dx, before.miny + dy, before.maxx + dx, before.maxy + dy>>
    /\ \A i \in 1..Len(before.gerbers) : ShiftedLayer(before.gerbers[i][2], after.gerbers[i][2], dx, dy)
    /\ ShiftedDrills(before.drills, after.drills, dx, dy)

\* C24: fixcoordinates(x_shift, y_shift) ends without error, with the extents of
\* the job and the point of every Draw and CircularDraw of every layer moved by
\* (x_shift, y_shift) and every plunge by (x_shift / 10, y_shift / 10), all
\* integers; after merge has called it for a job with a negative minimum, minx
\* and miny of the job are at least 0.
C24_FixCoordinates ==
    [][jpc' = "fixed" /\ jpc = "load" =>
          /\ ShiftedJob(job, job', mergeShift(job.minx), mergeShift(job.miny))
          /\ job'.minx >= 0 /\ job'.miny >= 0]_vars

(* ------------------------------------------------------------------ *)
(* A job with one short layer and its drills, trimmed or not, rotated. *)
(* ------------------------------------------------------------------ *)

TurnTokens ==
    {DCode(10), DCode(11), <<"D", 3, 0>>, <<"G", 74>>, <<"%LP", "%LPD*%">>,
     <<"X.Y.I.J.D", 31, 50, 5, -7, 2>>, <<"X.Y.D", 15, 20, 3>>, <<"X.Y.D", 80, 21, 2>>}

TurnBody ==
    \E tok \in TurnTokens :
        gfile = <<>> /\ Len(gdone) < Len(TrimHeader) + MaxLoadLen /\ ParseStatement(tok)

TurnNext ==
    \/ XParseHeader \/ XParseEnd \/ JobParseExcellon
    \/ ParseHeader \/ TurnBody \/ ParseEnd \/ JobParseGerber
    \/ JobTrimGerber \/ RotateJob

SpecTurn == RotInit /\ [][TurnNext]_vars

\* This step is one rotateJob(job, 90) that returned a job
Rotates == nrot' = nrot + 1 /\ job'.err = ""

\* The command after is what is due at the index of the command before
RotatedSelect(before, after, T1, T2) ==
    IF IsApertureSelect(before)
    THEN IF DictGet(T1, before).apname \in {"Circle", "Octagon"}
         THEN after = before
         ELSE /\ IsApertureSelect(after) /\ DictHas(T2, after)
              /\ ApertureHash(DictGet(T2, after)) = ApertureHash(rotated(DictGet(T1, before)))
    ELSE before[1] \in {"D", "G", "%"} => after = before

RotatedSelects(before, after, T1, T2) ==
    /\ Len(after.commands) = Len(before.commands)
    /\ \A k \in 1..Len(before.commands) :
           RotatedSelect(before.commands[k], after.commands[k], T1, T2)

\* C25: after one rotateJob(job, 90), in every layer an aperture selection is at
\* its index the same code when the aperture is a Circle or an Octagon, and
\* else the global code of the rotated aperture; D-codes below 10, G-codes and
\* %...% directives are at their index as they were.
C25_SelectsRotated ==
    [][Rotates =>
          \A i \in 1..Len(job.gerbers) :
              RotatedSelects(job.gerbers[i][2], job'.gerbers[i][2], GAT, GAT')]_vars

\* A layer that selects the rectangle and then has a D03 of its own, rotated
\* once: the rectangle 40 x 20 (D11) has become the new 20 x 40 (D12)
C25_Witness ==
    /\ nrot = 1 /\ job.err = ""
    /\ job0.gerbers[1][2].commands = <<DCode(11), <<"D", 3, 1>>>>
    /\ job.gerbers[1][2].commands = <<DCode(12), <<"D", 3, 1>>>>
    /\ Len(GAT) = 3

\* The extents of job with width and height exchanged about (minx, miny)
TurnedExtents(J) == <<J.minx, J.miny, J.minx + (J.maxy - J.miny), J.miny + (J.maxx - J.minx)>>

\* The Draw or CircularDraw cmd ends within the extents of J
EndsInside(cmd, J) ==
    inBorders(J, cmd[2], cmd[3], IF cmd[1] = "XYf" THEN cmd[5] ELSE 0)

\* The offsets of the CircularDraw after are those of before, turned
TurnedOffsets(before, after) ==
    /\ after[1] = "IJ" /\ after[6] = before[6] /\ after[7] = before[7]
    /\ <<after[4], after[5]>> = IF before[7] # 0 THEN <<-before[5], before[4]>>
                                                 ELSE <<before[5], before[4]>>

TurnedCommand(before, after, J1, J2) ==
    IsTuple(before) =>
        /\ IsTuple(after)
        /\ EndsInside(before, J1) => EndsInside(after, J2)
        /\ before[1] = "IJ" => TurnedOffsets(before, after)

TurnedLayer(before, after, J1, J2) ==
    /\ Len(after.commands) = Len(before.commands)
    /\ \A k \in 1..Len(before.commands) :
           TurnedCommand(before.commands[k], after.commands[k], J1, J2)

\* C26: one rotateJob(job, 90) keeps (minx, miny) of the job and exchanges its
\* width and height; a Draw or CircularDraw that ends within the extents of the
\* job ends within the extents of the rotated job; the offsets (I, J) of a
\* CircularDraw become (-J, I) when signed and (J, I) when not.
C26_TurnedAboutCorner ==
    [][Rotates =>
          /\ extents(job') = TurnedExtents(job)
          /\ \A i \in 1..Len(job.gerbers) :
                 TurnedLayer(job.gerbers[i][2], job'.gerbers[i][2], job, job')]_vars

\* An outline with a move to (80, 21) and a signed circular move to (31, 50),
\* extents (31, 21)-(80, 50), rotated once to (31, 21)-(60, 70)
C26_Witness ==
    /\ nrot = 1 /\ job.err = ""
    /\ extents(job0) = <<31, 21, 80, 50>> /\ extents(job) = <<31, 21, 60, 70>>
    /\ job0.gerbers[1][2].commands = <<<<"XY", 80, 21, 2>>, <<"IJ", 31, 50, 5, -7, 2, 1>>>>
    /\ job.gerbers[1][2].commands = <<<<"XY", 60, 70, 2>>, <<"IJ", 31, 21, 7, 5, 2, 1>>>>

(* ------------------------------------------------------------------ *)
(* A single point returned by segmentXbox                              *)
(* ------------------------------------------------------------------ *)

\* Exactly one of the endpoints is within the closed box, as inBorders tests it
OneInsideOneOutside == InClosedBox(pt1) # InClosedBox(pt2)

\* C27: whenever segmentXbox returns exactly one point, exactly one of the two
\* endpoints of the segment is inside the box and the other is outside it
\* (stated for the boxes of positive width and height).
C27_OnePointOneInside ==
    (gpc >= 1 /\ PositiveBox /\ Len(segmentXboxResult(xbox)) = 1) => OneInsideOneOutside

(* ------------------------------------------------------------------ *)
(* The position of the output of trim() before each draw               *)
(* ------------------------------------------------------------------ *)

RECURSIVE LastCoordinates(_, _)

\* The index of the last Draw or CircularDraw among the first k of cmds, or 0
LastCoordinates(cmds, k) ==
    IF k = 0 THEN 0
    ELSE IF IsTuple(cmds[k]) THEN k
    ELSE LastCoordinates(cmds, k - 1)

\* The command that sets the position before cmds[k], when there is one, ends
\* within the borders of P
StartsInside(cmds, j, P) == j > 0 => EndsInside(cmds[j], P)

\* cmds[k], when it is a Draw with the exposure on, draws a segment within the borders of P
DrawnInside(cmds, k, P) ==
    (cmds[k][1] \in {"XY", "XYf"} /\ cmds[k][4] = 1) =>
        /\ EndsInside(cmds[k], P)
        /\ StartsInside(cmds, LastCoordinates(cmds, k - 1), P)

\* C28: in the output of trim() the position held before every Draw with the
\* exposure on is the start point trim() took for it, so that every segment
\* drawn lies within the closed box of the borders; here for the segments
\* whose start is set by a command of the output.
C28_DrawnInside ==
    (Len(trimlog) >= 1 /\ trimlog[1].err = "") =>
        \A k \in 1..Len(trimlog[1].after) : DrawnInside(trimlog[1].after, k, layer)

(* ------------------------------------------------------------------ *)
(* The extents held by the layers and the drills of a rotated job      *)
(* ------------------------------------------------------------------ *)

\* Every layer of J and its drills hold the extents of J
HoldsJobExtents(J) ==
    /\ \A i \in 1..Len(J.gerbers) : extents(J.gerbers[i][2]) = extents(J)
    /\ extents(J.drills) = extents(J)

\* C29: after rotateJob by 90, 180 or 270 degrees every layer of the job
\* returned and its drills hold the extents of the job returned.
C29_RotatedHoldExtents == (nrot \in 1..3 /\ job.err = "") => HoldsJobExtents(job)

\* C30: four rotateJob(job, 90) in succession return the plunges of every tool
\* to the integers they were, in the order they were.
C30_PlungesReturn ==
    (nrot = 4 /\ job.err = "") => job.drills.xcommands = job0.drills.xcommands

====
